---- MODULE Spec2Model ----
(***************************************************************************)
(* Debt-purchasing backend: order store, subgraph cache service (sync      *)
(* passes), subgraph client (endpoint failover) and the executability      *)
(* evaluator.                                                              *)
(*                                                                         *)
(* The specifications of the module:                                       *)
(*   Spec        - order store, createOrder requests, the clock, and sync  *)
(*                 passes started through POST /cache/refresh              *)
(*   SpecSched   - startCaching, the cron job and forceRefresh contending  *)
(*                 for the pass, over an empty orders collection           *)
(*   SpecCreate  - POST /orders alone, rejected requests included          *)
(*   SpecQuery   - SubgraphService.executeQuery, several calls in flight   *)
(*   SpecVerdict - canExecuteOrder applied to bounded inputs               *)
(*   SpecSchedFair - SpecSched with passes whose awaits settle             *)
(*   SpecHF      - getCurrentHealthFactor applied to bounded inputs        *)
(*   SpecTiming  - validateOrderTiming applied to bounded inputs           *)
(*   SpecPartial - validatePartialSellOrder applied to bounded inputs      *)
(*   SpecFull    - validateFullSellOrder applied to bounded inputs         *)
(*   SpecFeed    - sync passes over the first page of the indexer's        *)
(*                 execution events, for one stored order; SpecFeedFair    *)
(*                 with passes that keep being scheduled                   *)
(*   SpecStop    - SpecSched with a call of stopCaching                    *)
(* Each specification leaves the variables of the others at their initial  *)
(* value.                                                                  *)
(***************************************************************************)
EXTENDS Integers, Sequences, FiniteSets, TLC

VARIABLES
    \* ---- SubgraphService (src/src/services/subgraph.ts)
    currentEndpointIndex,   \* this.currentEndpointIndex
    calls,                  \* executeQuery invocations in flight, by caller
    lastOutcome,            \* outcome of the most recently finished executeQuery call
    \* ---- canExecuteOrder (src/src/utils/orderHelpers.ts)
    ceInput,                \* arguments of the evaluated call, with the clock
    ceResult,               \* its return value
    \* ---- getCurrentHealthFactor / calculateHealthFactor
    hfInput,                \* the position looked up, with the store's answers
    hfResult,               \* the health factor returned and how it was computed
    \* ---- validateOrderTiming / validatePartialSellOrder
    validationInput,        \* the order validated, with the clock
    validationResult,       \* the object the validator returned
    \* ---- order store and cache service
    orders,                 \* the orders collection (documents, unique by id)
    positions,              \* the debtpositions collection: stored nonce by id
    now,                    \* wall clock, in seconds
    isRunning,              \* SubgraphCacheService.isRunning
    cronJob,                \* SubgraphCacheService.cronJob is set
    startPc,                \* position of startCaching
    passes,                 \* invocations of fetchAndCacheData, by caller
    pending,                \* createOrder requests between findOne and save
    lastRejection,          \* the answer to the last rejected createOrder request
    resolution,             \* side of the merge conflict in orderHelpers.ts that is built
    \* ---- the indexer's execution events and the service's shutdown
    indexerEvents,          \* fullOrderExecutions the indexer exposes, newest first
    fetchedEvents,          \* what the pass in flight fetched and has not applied yet
    stopReturned            \* stopCaching() has returned

queryVars == <<currentEndpointIndex, calls, lastOutcome>>
verdictVars == <<ceInput, ceResult, hfInput, hfResult, validationInput, validationResult>>
storeVars == <<orders, positions, now, isRunning, cronJob, startPc, passes,
               pending, lastRejection, resolution>>
serviceVars == <<indexerEvents, fetchedEvents, stopReturned>>
vars == <<queryVars, verdictVars, storeVars, serviceVars>>

\* null / undefined of a value that is an object when present.
Null == [null |-> TRUE]

\* No Error object yet (let lastError: Error | null = null).
NoError == "null"

(***************************************************************************)
(* SubgraphService.executeQuery                                            *)
(***************************************************************************)

\* Number of configured endpoints: the primary and the backup URLs.
totalEndpoints == 3

Endpoints == 0 .. (totalEndpoints - 1)

\* Callers that can have an executeQuery call in flight at once (the fetches
\* of one fetchAllData run concurrently).
CallIds == {"fetchDebtPositions", "fetchFullOrderExecutions"}

\* Messages of the errors the HTTP client raises.
ErrorMessages == {"timeout of 10000ms exceeded", "Request failed with status code 429"}

AllFailedPrefix == "All subgraph endpoints failed. Last error: "

IdleCall == [pc |-> "idle", i |-> 0, endpointIndex |-> 0, lastError |-> NoError,
             tried |-> <<>>, lastMessage |-> NoError, startedAfter |-> Null,
             result |-> Null]

\* const endpointIndex = (this.currentEndpointIndex + i) % totalEndpoints
EndpointAt(i) == (currentEndpointIndex + i) % totalEndpoints

\* An index that goes back to the primary after every success.
IndexAfterSuccess_Primary(endpointIndex) == 0

\* this.currentEndpointIndex = endpointIndex
IndexAfterSuccess(endpointIndex) == endpointIndex

\* An error record that keeps the first error of the call.
RecordError_First(previous, message) ==
    IF previous = NoError THEN message ELSE previous

\* lastError = error instanceof Error ? error : new Error(errorMessage)
RecordError(previous, message) == message

\* throw new Error(`All subgraph endpoints failed. Last error: ${lastError?.message || "Unknown error"}`)
AllEndpointsFailedError(lastError) ==
    [error |-> AllFailedPrefix,
     last |-> IF lastError = NoError THEN "Unknown error" ELSE lastError]

\* this.currentEndpointIndex when every endpoint has failed: the catch block
\* and the throw leave it as it is.
IndexAfterAllFailed == currentEndpointIndex

\* The call starts: i = 0, the first endpoint is computed and the POST is sent.
ExecuteQueryStart(c) ==
    /\ calls[c].pc = "idle"
    /\ calls' = [calls EXCEPT ![c] =
                    [IdleCall EXCEPT !.pc = "awaiting",
                                     !.i = 0,
                                     !.endpointIndex = EndpointAt(0),
                                     !.tried = <<EndpointAt(0)>>,
                                     !.startedAfter = lastOutcome]]
    /\ UNCHANGED <<currentEndpointIndex, lastOutcome, verdictVars, storeVars, serviceVars>>

\* The awaited POST resolves: the index is remembered, response.data returned.
ExecuteQuerySuccess(c) ==
    /\ calls[c].pc = "awaiting"
    /\ currentEndpointIndex' = IndexAfterSuccess(calls[c].endpointIndex)
    /\ calls' = [calls EXCEPT ![c].pc = "returned",
                              ![c].result = [data |-> calls[c].endpointIndex]]
    /\ lastOutcome' = [kind |-> "ok", endpointIndex |-> calls[c].endpointIndex,
                        failures |-> calls[c].i]
    /\ UNCHANGED <<verdictVars, storeVars, serviceVars>>

\* The awaited POST rejects: catch block, then either the next iteration of
\* the loop (next endpoint computed and tried) or the throw after the loop.
ExecuteQueryFailure(c) ==
    /\ calls[c].pc = "awaiting"
    /\ \E message \in ErrorMessages :
        LET err == RecordError(calls[c].lastError, message)
        IN  IF calls[c].i = totalEndpoints - 1
            THEN /\ calls' = [calls EXCEPT ![c].pc = "thrown",
                                           ![c].lastError = err,
                                           ![c].lastMessage = message,
                                           ![c].result = AllEndpointsFailedError(err)]
                 /\ currentEndpointIndex' = IndexAfterAllFailed
                 /\ lastOutcome' = [kind |-> "failed"]
            ELSE /\ calls' = [calls EXCEPT ![c].i = calls[c].i + 1,
                                           ![c].lastError = err,
                                           ![c].lastMessage = message,
                                           ![c].endpointIndex = EndpointAt(calls[c].i + 1),
                                           ![c].tried = Append(calls[c].tried,
                                                               EndpointAt(calls[c].i + 1))]
                 /\ UNCHANGED <<currentEndpointIndex, lastOutcome>>
    /\ UNCHANGED <<verdictVars, storeVars, serviceVars>>

\* The caller has consumed the result; the caller may call again.
ExecuteQueryDone(c) ==
    /\ calls[c].pc \in {"returned", "thrown"}
    /\ calls' = [calls EXCEPT ![c] = IdleCall]
    /\ UNCHANGED <<currentEndpointIndex, lastOutcome, verdictVars, storeVars, serviceVars>>

QueryInit ==
    /\ currentEndpointIndex = 0
    /\ calls = [c \in CallIds |-> IdleCall]
    /\ lastOutcome = Null

QueryNext ==
    \E c \in CallIds :
        \/ ExecuteQueryStart(c)
        \/ ExecuteQuerySuccess(c)
        \/ ExecuteQueryFailure(c)
        \/ ExecuteQueryDone(c)

(***************************************************************************)
(* canExecuteOrder                                                         *)
(***************************************************************************)

\* Strings handed to BigInt() are sequences of characters.
DigitChars == <<"0", "1", "2", "3", "4", "5", "6", "7", "8", "9",
                "a", "b", "c", "d", "e", "f">>

DigitValue(ch) ==
    IF \E k \in DOMAIN DigitChars : DigitChars[k] = ch
    THEN (CHOOSE k \in DOMAIN DigitChars : DigitChars[k] = ch) - 1
    ELSE -1

RECURSIVE DigitsValue(_, _, _)
\* Value of a non-empty digit string in the radix, -1 when a character is no
\* digit of the radix.
DigitsValue(s, radix, acc) ==
    IF s = <<>> THEN acc
    ELSE LET d == DigitValue(Head(s))
         IN  IF d < 0 \/ d >= radix THEN -1
             ELSE DigitsValue(Tail(s), radix, acc * radix + d)

RECURSIVE TrimLeft(_)
TrimLeft(s) == IF s # <<>> /\ Head(s) = " " THEN TrimLeft(Tail(s)) ELSE s

RECURSIVE TrimRight(_)
TrimRight(s) ==
    IF s # <<>> /\ s[Len(s)] = " " THEN TrimRight(SubSeq(s, 1, Len(s) - 1)) ELSE s

RadixOfPrefix(ch) ==
    CASE ch \in {"x", "X"} -> 16
      [] ch \in {"o", "O"} -> 8
      [] ch \in {"b", "B"} -> 2
      [] OTHER -> 0

\* BigInt(string) of the JavaScript runtime (StringToBigInt): white space is
\* trimmed, the empty string is 0n, a decimal literal may carry a sign, a
\* 0x / 0o / 0b literal may not; anything else raises SyntaxError.
BigInt(str) ==
    LET s == TrimRight(TrimLeft(str))
        Bad == [ok |-> FALSE, value |-> 0]
        Num(v) == IF v < 0 THEN Bad ELSE [ok |-> TRUE, value |-> v]
    IN  IF s = <<>> THEN [ok |-> TRUE, value |-> 0]
        ELSE IF Len(s) >= 2 /\ s[1] = "0" /\ RadixOfPrefix(s[2]) # 0
        THEN IF Len(s) = 2 THEN Bad
             ELSE Num(DigitsValue(SubSeq(s, 3, Len(s)), RadixOfPrefix(s[2]), 0))
        ELSE IF s[1] \in {"-", "+"}
        THEN IF Len(s) = 1 THEN Bad
             ELSE LET v == DigitsValue(Tail(s), 10, 0)
                  IN  IF v < 0 THEN Bad
                      ELSE [ok |-> TRUE, value |-> IF s[1] = "-" THEN 0 - v ELSE v]
        ELSE Num(DigitsValue(s, 10, 0))

\* if (status !== "ACTIVE") return "NO - non active"
CheckStatus(status) == IF status # "ACTIVE" THEN "NO - non active" ELSE "YES"

\* if (now > endTime) return "NO - expired"
CheckExpiry(nowDate, endTime) == IF nowDate > endTime THEN "NO - expired" ELSE "YES"

\* if (now < startTime) return "NO - not started"
CheckStarted(nowDate, startTime) ==
    IF nowDate < startTime THEN "NO - not started" ELSE "YES"

\* The try block: both BigInt() conversions, then the comparison; a raised
\* conversion ends in the catch block.
CheckHealthFactor(triggerHF, currentHF) ==
    LET triggerHFBig == BigInt(triggerHF)
        currentHFBig == BigInt(currentHF)
    IN  IF ~triggerHFBig.ok \/ ~currentHFBig.ok THEN "NO - invalid HF format"
        ELSE IF currentHFBig.value > triggerHFBig.value THEN "NO - HF too high"
        ELSE "YES"

\* An evaluator that looks at the health factors before the time window.
canExecuteOrder_HFFirst(nowDate, startTime, endTime, status, triggerHF, currentHF) ==
    IF CheckStatus(status) # "YES" THEN CheckStatus(status)
    ELSE IF CheckHealthFactor(triggerHF, currentHF) # "YES"
    THEN CheckHealthFactor(triggerHF, currentHF)
    ELSE IF CheckExpiry(nowDate, endTime) # "YES" THEN CheckExpiry(nowDate, endTime)
    ELSE CheckStarted(nowDate, startTime)

\* canExecuteOrder(startTime, endTime, status, triggerHF, currentHF), with the
\* value new Date() has inside it (dates are in milliseconds).
canExecuteOrder(nowDate, startTime, endTime, status, triggerHF, currentHF) ==
    IF CheckStatus(status) # "YES" THEN CheckStatus(status)
    ELSE IF CheckExpiry(nowDate, endTime) # "YES" THEN CheckExpiry(nowDate, endTime)
    ELSE IF CheckStarted(nowDate, startTime) # "YES" THEN CheckStarted(nowDate, startTime)
    ELSE CheckHealthFactor(triggerHF, currentHF)

\* timestampToDate: new Date(timestamp * 1000)
timestampToDate(timestamp) == timestamp * 1000

\* Largest timestamp (seconds) of the evaluator's inputs.
MaxVerdictTime == 2

\* The stored status values of the schema.
OrderStatuses == {"ACTIVE", "EXECUTED", "CANCELLED", "EXPIRED"}

\* Health-factor strings handed to the evaluator: "15", "20", "", "-5", "abc",
\* "1.5", "0x10", " 7 ".
HFStrings == { <<"1", "5">>, <<"2", "0">>, <<>>, <<"-", "5">>, <<"a", "b", "c">>,
               <<"1", ".", "5">>, <<"0", "x", "1", "0">>, <<" ", "7", " ">> }

\* Instants new Date() can return: whole seconds and half seconds.
VerdictClock == { s * 1000 + f : s \in 0 .. MaxVerdictTime, f \in {0, 500} }

VerdictInit ==
    /\ ceInput = Null
    /\ ceResult = "none"
    /\ hfInput = Null
    /\ hfResult = Null
    /\ validationInput = Null
    /\ validationResult = Null

\* The arguments of one call, with the value of new Date() inside it.
VerdictInputs ==
    [nowDate : VerdictClock,
     startTime : { timestampToDate(t) : t \in 0 .. MaxVerdictTime },
     endTime : { timestampToDate(t) : t \in 0 .. MaxVerdictTime },
     status : OrderStatuses, triggerHF : HFStrings, currentHF : HFStrings]

VerdictInputInit ==
    /\ ceInput \in VerdictInputs
    /\ ceResult = "none"
    /\ hfInput = Null
    /\ hfResult = Null
    /\ validationInput = Null
    /\ validationResult = Null

Evaluate ==
    /\ ceInput # Null
    /\ ceResult = "none"
    /\ ceResult' = canExecuteOrder(ceInput.nowDate, ceInput.startTime, ceInput.endTime,
                                   ceInput.status, ceInput.triggerHF, ceInput.currentHF)
    /\ UNCHANGED <<ceInput, hfInput, hfResult, validationInput, validationResult,
                   queryVars, storeVars, serviceVars>>

VerdictNext == Evaluate

(***************************************************************************)
(* calculateHealthFactor and getCurrentHealthFactor                        *)
(*                                                                         *)
(* Numbers are exact decimals n / 10^scale, or NaN. Health factor strings  *)
(* are written without the sixteen trailing zeros of the code's 1e18       *)
(* scale: "100" stands for "1000000000000000000" (1.0) and "99999900" for  *)
(* "999999000000000000000000".                                             *)
(***************************************************************************)

NaN == [nan |-> TRUE, n |-> 0, scale |-> 0]

RECURSIVE Number(_, _)
\* The decimal n / 10^scale, without trailing zeros in its fraction.
Number(n, scale) ==
    IF scale > 0 /\ n % 10 = 0 THEN Number(n \div 10, scale - 1)
    ELSE [nan |-> FALSE, n |-> n, scale |-> scale]

RECURSIVE Pow10(_)
Pow10(k) == IF k = 0 THEN 1 ELSE 10 * Pow10(k - 1)

RECURSIVE DigitPrefix(_)
\* The longest prefix of decimal digits.
DigitPrefix(s) ==
    IF s # <<>> /\ DigitValue(Head(s)) \in 0 .. 9
    THEN <<Head(s)>> \o DigitPrefix(Tail(s))
    ELSE <<>>

\* parseFloat(string): leading white space is skipped, then the longest
\* prefix that is a decimal literal (sign, digits, fraction) is read; NaN
\* when there is none. Exponents are not among the strings used here.
parseFloat(str) ==
    LET s == TrimLeft(str)
        u == IF s # <<>> /\ s[1] \in {"-", "+"} THEN Tail(s) ELSE s
        int == DigitPrefix(u)
        rest == SubSeq(u, Len(int) + 1, Len(u))
        frac == IF rest # <<>> /\ rest[1] = "." THEN DigitPrefix(Tail(rest)) ELSE <<>>
        v == DigitsValue(int \o frac, 10, 0)
    IN  IF int \o frac = <<>> THEN NaN
        ELSE Number(IF s[1] = "-" THEN 0 - v ELSE v, Len(frac))

\* a * b
Times(a, b) ==
    IF a.nan \/ b.nan THEN NaN ELSE Number(a.n * b.n, a.scale + b.scale)

\* a + b
Plus(a, b) ==
    IF a.nan \/ b.nan THEN NaN
    ELSE LET sc == IF a.scale > b.scale THEN a.scale ELSE b.scale
         IN  Number(a.n * Pow10(sc - a.scale) + b.n * Pow10(sc - b.scale), sc)

RECURSIVE IntToDigits(_)
\* The decimal digits of a natural number.
IntToDigits(n) ==
    IF n < 10 THEN <<DigitChars[n + 1]>>
    ELSE IntToDigits(n \div 10) \o <<DigitChars[(n % 10) + 1]>>

\* BigInt.prototype.toString()
BigIntToString(n) == IF n < 0 THEN <<"-">> \o IntToDigits(0 - n) ELSE IntToDigits(n)

\* The 1e18 of the code, in the unit of the health factor strings here.
HFScale == 100

\* "999999000000000000000000" and "1000000000000000000"
InfiniteHF == BigIntToString(999999 * HFScale)
DefaultHF == BigIntToString(HFScale)

\* BigInt(Math.floor((a / b) * 1e18)).toString() for b other than 0 and NaN.
FlooredRatio(a, b) ==
    LET num == a.n * Pow10(b.scale) * HFScale
        den == b.n * Pow10(a.scale)
    IN  BigIntToString(IF den < 0 THEN (0 - num) \div (0 - den) ELSE num \div den)

\* Token addresses; the most collaterals and debts a position holds.
Tokens == {"0xt1", "0xt2"}
MaxCollaterals == 1
MaxDebts == 2

\* The field of a document the store does not hold (no string has this
\* character).
Missing == <<"undefined">>

\* tokenPriceMap.get(token), or { priceUSD: "1.00", decimals: 18 } for a
\* token without document.
PriceOf(tokens, token) ==
    IF tokens[token] = Missing THEN <<"1", ".", "0", "0">> ELSE tokens[token]

\* liquidationThresholdMap.get(token), or "0.85" when there is none.
ThresholdOf(assetConfigs, token) ==
    IF assetConfigs[token] \in {Missing, <<>>}
    THEN <<"0", ".", "8", "5">> ELSE assetConfigs[token]

RECURSIVE WeightedCollateralValue(_, _, _)
\* totalWeightedCollateralValue after the loop over the collaterals.
WeightedCollateralValue(collaterals, tokens, assetConfigs) ==
    IF collaterals = <<>> THEN Number(0, 0)
    ELSE LET c == collaterals[Len(collaterals)]
         IN  Plus(WeightedCollateralValue(SubSeq(collaterals, 1, Len(collaterals) - 1),
                                          tokens, assetConfigs),
                  Times(Times(parseFloat(c.amount), parseFloat(PriceOf(tokens, c.token))),
                        parseFloat(ThresholdOf(assetConfigs, c.token))))

RECURSIVE DebtValue(_, _)
\* totalDebtValue after the loop over the debts.
DebtValue(debts, tokens) ==
    IF debts = <<>> THEN Number(0, 0)
    ELSE LET d == debts[Len(debts)]
         IN  Plus(DebtValue(SubSeq(debts, 1, Len(debts) - 1), tokens),
                  Times(parseFloat(d.amount), parseFloat(PriceOf(tokens, d.token))))

\* A calculation without the test of the total debt value.
DebtIsZero_Unchecked(totalDebtValue) == FALSE

\* if (totalDebtValue === 0)
DebtIsZero(totalDebtValue) == ~totalDebtValue.nan /\ totalDebtValue.n = 0

\* calculateHealthFactor(collaterals, debts) with the documents Token.find
\* and AssetConfiguration.find answer, or their failure: the string returned
\* and whether the division was evaluated. A division by zero or with NaN
\* gives Infinity or NaN, of which BigInt() raises RangeError; the catch
\* block returns the same string as the tests for no debt.
HealthFactorCalculation(collaterals, debts, tokens, assetConfigs, readFails) ==
    IF debts = <<>> THEN [result |-> InfiniteHF, divided |-> FALSE]
    ELSE IF readFails THEN [result |-> InfiniteHF, divided |-> FALSE]
    ELSE LET weighted == WeightedCollateralValue(collaterals, tokens, assetConfigs)
             totalDebtValue == DebtValue(debts, tokens)
         IN  IF DebtIsZero(totalDebtValue)
             THEN [result |-> InfiniteHF, divided |-> FALSE]
             ELSE IF weighted.nan \/ totalDebtValue.nan \/ totalDebtValue.n = 0
             THEN [result |-> InfiniteHF, divided |-> TRUE]
             ELSE [result |-> FlooredRatio(weighted, totalDebtValue), divided |-> TRUE]

calculateHealthFactor(collaterals, debts, tokens, assetConfigs, readFails) ==
    HealthFactorCalculation(collaterals, debts, tokens, assetConfigs, readFails).result

\* Amounts of the positions and prices of the token documents, as strings.
AmountStrings == { <<"0">>, <<"2">>, <<"a", "b", "c">> }
PriceStrings == { <<"0">>, <<"1", ".", "0", "0">>, Missing }

\* Arrays of at most n entries { token, amount } with the given amounts.
Holdings(n, amounts) ==
    UNION { [1 .. k -> [token : Tokens, amount : amounts]] : k \in 0 .. n }

\* What DebtPosition.findOne({ id: debtAddress }) gives: a position, no
\* document, or a store error; with the answers of Token.find and
\* AssetConfiguration.find in the first case.
HFInputs ==
    [lookup : {"found"},
     collaterals : Holdings(MaxCollaterals, { <<"2">> }),
     debts : Holdings(MaxDebts, AmountStrings),
     tokens : [Tokens -> PriceStrings],
     assetConfigs : { [t \in Tokens |-> Missing], [t \in Tokens |-> <<"0", ".", "5">>] },
     readFails : BOOLEAN]
    \cup
    [lookup : {"missing", "error"}, collaterals : {<<>>}, debts : {<<>>},
     tokens : { [t \in Tokens |-> Missing] },
     assetConfigs : { [t \in Tokens |-> Missing] }, readFails : {FALSE}]

\* DebtPositionService.getCurrentHealthFactor(debtAddress), through
\* calculateHealthFactorSafely: '1000000000000000000' when the position is
\* not found and when the lookup raises, else what calculateHealthFactor
\* returns.
CurrentHealthFactor(in) ==
    IF in.lookup \in {"missing", "error"}
    THEN [result |-> DefaultHF, divided |-> FALSE]
    ELSE HealthFactorCalculation(in.collaterals, in.debts, in.tokens,
                                 in.assetConfigs, in.readFails)

HFInputInit ==
    /\ hfInput \in HFInputs
    /\ hfResult = Null
    /\ ceInput = Null
    /\ ceResult = "none"
    /\ validationInput = Null
    /\ validationResult = Null

GetCurrentHealthFactor ==
    /\ hfInput # Null
    /\ hfResult = Null
    /\ hfResult' = CurrentHealthFactor(hfInput)
    /\ UNCHANGED <<ceInput, ceResult, hfInput, validationInput, validationResult,
                   queryVars, storeVars, serviceVars>>

HFNext == GetCurrentHealthFactor

(***************************************************************************)
(* Order store: documents and the store operations the code uses           *)
(***************************************************************************)

\* Debt position addresses, order types, sellers.
Addrs == {"0xd1", "0xd2"}
OrderTypes == {"FULL", "PARTIAL"}
Sellers == {"0xs1"}

\* Largest debt nonce of a payload or of a position snapshot.
MaxNonce == 1

\* Instants of the wall clock (seconds).
Instants == {0, 3601}

\* Most documents the orders collection holds, and most createOrder
\* requests between their findOne and their save.
MaxOrders == 2
MaxPending == 1

\* Most entities one fetched dataset holds.
MaxBatch == 1

Unset == "undefined"

\* A Date field that is not set.
NoDate == -1

\* No document of that id in the debtpositions collection.
NoPosition == -1

\* new Date(): the clock in milliseconds.
NewDate == now * 1000

\* generateOrderId(orderType, order): the identifier of the order, a hash of
\* the order type and the order's fields (the title hash, by which the
\* subgraph's execution and cancellation events name the order).
generateOrderId(orderType, order) ==
    <<orderType, order.debt, order.debtNonce, order.startTime, order.endTime,
      order.triggerHF>>

\* new Order(orderData) after the pre-validate / pre-save hooks: status
\* ACTIVE and the computed fields copied from the payload.
OrderDocument(orderType, seller, order) ==
    [id |-> generateOrderId(orderType, order),
     orderType |-> orderType,
     seller |-> seller,
     status |-> "ACTIVE",
     debtAddress |-> order.debt,
     debtNonce |-> order.debtNonce,
     startTime |-> timestampToDate(order.startTime),
     endTime |-> timestampToDate(order.endTime),
     triggerHF |-> order.triggerHF,
     buyer |-> Unset, txHash |-> Unset, blockNumber |-> Unset,
     usdValue |-> Unset, usdBonus |-> Unset,
     cancelledAt |-> NoDate, cancelReason |-> Unset,
     updatedAt |-> NewDate]

\* Model.updateOne(filter, {$set}): one document of those matching the
\* filter is replaced by its update; nothing happens without a match.
UpdateOne(coll, matching, updated) ==
    IF matching # {}
    THEN LET o == CHOOSE d \in matching : TRUE
         IN  (coll \ {o}) \cup {updated[o]}
    ELSE coll

\* Model.updateMany(filter, {$set})
UpdateMany(coll, matching, updated) ==
    { IF o \in matching THEN updated[o] ELSE o : o \in coll }

\* Model.findOne(filter): a matching document, or null.
FindOne(matching) ==
    IF matching # {} THEN CHOOSE o \in matching : TRUE ELSE Null

\* new Date(parseInt(seconds) * 1000)
DateOfSeconds(seconds) == seconds * 1000

\* A filter of the execution updates that matches ACTIVE orders only.
ExecutionFilter_ActiveOnly(o, execution, orderType) ==
    o.id = execution.titleHash /\ o.orderType = orderType /\ o.status = "ACTIVE"

\* A filter of the execution updates that names the id alone.
ExecutionFilter_AnyType(o, execution, orderType) == o.id = execution.titleHash

\* Filter of the execution updates: { id: execution.titleHash, orderType }
ExecutionFilter(o, execution, orderType) ==
    o.id = execution.titleHash /\ o.orderType = orderType

\* A $set that also advances the nonce of the order it marks.
ExecutionSet_Bumping(o, execution) ==
    [o EXCEPT !.status = "EXECUTED",
              !.buyer = execution.buyer,
              !.debtNonce = o.debtNonce + 1,
              !.txHash = execution.id]

\* $set of processFullOrderExecution / processPartialOrderExecution
ExecutionSet(o, execution) ==
    [o EXCEPT !.status = "EXECUTED",
              !.buyer = execution.buyer,
              !.usdValue = execution.usdValue,
              !.usdBonus = execution.usdBonus,
              !.blockNumber = execution.blockNumber,
              !.txHash = execution.id,
              !.updatedAt = DateOfSeconds(execution.blockTimestamp)]

\* processFullOrderExecution(execution): the store after it.
processFullOrderExecution(coll, execution) ==
    UpdateOne(coll,
              { o \in coll : ExecutionFilter(o, execution, "FULL") },
              [o \in coll |-> ExecutionSet(o, execution)])

\* processPartialOrderExecution(execution): the store after it.
processPartialOrderExecution(coll, execution) ==
    UpdateOne(coll,
              { o \in coll : ExecutionFilter(o, execution, "PARTIAL") },
              [o \in coll |-> ExecutionSet(o, execution)])

\* Filter of processCancelledOrder: { id: cancelledOrder.titleHash }
CancelledFilter(o, cancelledOrder) == o.id = cancelledOrder.titleHash

\* processCancelledOrder(cancelledOrder): the store after it.
processCancelledOrder(coll, cancelledOrder) ==
    UpdateOne(coll,
              { o \in coll : CancelledFilter(o, cancelledOrder) },
              [o \in coll |->
                  [o EXCEPT !.status = "CANCELLED",
                            !.cancelledAt = DateOfSeconds(cancelledOrder.cancelledAt),
                            !.cancelReason = "Cancelled on-chain",
                            !.updatedAt = DateOfSeconds(cancelledOrder.cancelledAt)]])

\* A filter that also takes the orders signed at the current nonce.
CancelOldFilter_Lte(o, debtPositionId, currentNonce) ==
    /\ o.debtAddress = debtPositionId
    /\ o.debtNonce <= currentNonce
    /\ o.status = "ACTIVE"

\* Filter of cancelOldOrdersForDebtPosition:
\* { debtAddress: debtPositionId, debtNonce: { $lt: currentNonce }, status: "ACTIVE" }
CancelOldFilter(o, debtPositionId, currentNonce) ==
    /\ o.debtAddress = debtPositionId
    /\ o.debtNonce < currentNonce
    /\ o.status = "ACTIVE"

\* cancelOldOrdersForDebtPosition(debtPositionId, currentNonce): the store
\* after it, at the given new Date().
cancelOldOrdersForDebtPosition(coll, debtPositionId, currentNonce, date) ==
    UpdateMany(coll,
               { o \in coll : CancelOldFilter(o, debtPositionId, currentNonce) },
               [o \in coll |->
                   [o EXCEPT !.status = "CANCELLED",
                             !.cancelReason = "Position nonce updated - old orders cancelled",
                             !.updatedAt = date]])

(***************************************************************************)
(* POST /orders (createOrder)                                              *)
(***************************************************************************)

\* The payloads submitted: debt, debtNonce, window; one trigger HF.
Payload(debt, debtNonce, window) ==
    [debt |-> debt, debtNonce |-> debtNonce, startTime |-> window[1],
     endTime |-> window[2], triggerHF |-> <<"1", "5">>]

\* Full sale payloads: one position at every nonce, and a second position.
FullPayloads ==
    { Payload("0xd1", n, <<0, 1>>) : n \in 0 .. MaxNonce } \cup
    { Payload("0xd2", 0, <<1, 3602>>) }

\* Partial sale payloads: the first position at nonce 0.
PartialPayloads == { Payload("0xd1", 0, <<0, 1>>) }

Payloads == FullPayloads \cup PartialPayloads

\* What the signature (v, r, s) of a request was made over: the EIP-712
\* digest (src/unnamed/part_000 signFullSellOrder), the raw struct hash
\* (src/tests/testUtils.ts signFullSellOrder), or nothing (malformed v, r, s).
SignedOver == {"eip712Hash", "structHash", "malformed"}

\* A request body: the order type, the seller, the key that signed and what
\* it signed, and the payload under fullSellOrder or partialSellOrder.
Request(orderType, seller, signedBy, signedOver, payload) ==
    [orderType |-> orderType, seller |-> seller, signedBy |-> signedBy,
     signedOver |-> signedOver,
     fullSellOrder |-> IF orderType = "PARTIAL" THEN Null ELSE payload,
     partialSellOrder |-> IF orderType = "PARTIAL" THEN payload ELSE Null]

Signers == Sellers \cup {"0xother"}

\* Request bodies without seller, with both payloads, or with none.
MalformedRequests ==
    { [orderType |-> t, seller |-> "", signedBy |-> "0xs1", signedOver |-> "eip712Hash",
       fullSellOrder |-> p, partialSellOrder |-> Null] : t \in OrderTypes, p \in FullPayloads }
    \cup
    { [orderType |-> t, seller |-> "0xs1", signedBy |-> "0xs1", signedOver |-> "eip712Hash",
       fullSellOrder |-> p, partialSellOrder |-> p] : t \in OrderTypes, p \in PartialPayloads }
    \cup
    { [orderType |-> t, seller |-> "0xs1", signedBy |-> "0xs1", signedOver |-> "eip712Hash",
       fullSellOrder |-> Null, partialSellOrder |-> Null] : t \in OrderTypes }

Requests ==
    { Request("FULL", s, k, d, p) :
        s \in Sellers, k \in Signers, d \in SignedOver, p \in FullPayloads }
    \cup
    { Request("PARTIAL", s, k, d, p) :
        s \in Sellers, k \in Signers, d \in SignedOver, p \in PartialPayloads }
    \cup
    { Request("LIMIT", s, s, "eip712Hash", p) : s \in Sellers, p \in FullPayloads }
    \cup MalformedRequests

\* validateOrderTiming(order), with now = Math.floor(Date.now() / 1000)
validateOrderTiming(order, nowSeconds) ==
    IF order.startTime > order.endTime THEN "Start time must be before end time"
    ELSE IF order.endTime <= nowSeconds THEN "Order has already expired"
    ELSE IF order.startTime < nowSeconds - 3600 THEN "Start time too far in the past"
    ELSE "valid"

\* isValidBigNumberString: /^\d+$/.test(value) && value !== ""
isValidBigNumberString(value) ==
    /\ value # <<>>
    /\ \A k \in DOMAIN value : DigitValue(value[k]) \in 0 .. 9

\* The errors validateFullSellOrder / validatePartialSellOrder collect for the
\* fields the payloads here carry.
ValidationErrors(order, nowSeconds) ==
    (IF validateOrderTiming(order, nowSeconds) # "valid"
     THEN <<validateOrderTiming(order, nowSeconds)>> ELSE <<>>)
    \o (IF ~isValidBigNumberString(order.triggerHF)
        THEN <<"Invalid trigger health factor">> ELSE <<>>)

(***************************************************************************)
(* validateOrderTiming and validatePartialSellOrder applied to inputs      *)
(***************************************************************************)

\* The object validateOrderTiming returns: { valid, reason? }
TimingResult(order, nowSeconds) ==
    [valid |-> validateOrderTiming(order, nowSeconds) = "valid",
     reason |-> validateOrderTiming(order, nowSeconds)]

\* Values of Math.floor(Date.now() / 1000), and the distance of startTime and
\* endTime from it: the two sides of the hour of grace, the second before
\* now, now, and two seconds after it.
TimingNows == {3601, 3602, 7300}
TimingOffsets == {-3601, -3600, -1, 0, 1, 2}

TimingInputs ==
    { [order |-> [startTime |-> n + a, endTime |-> n + b], now |-> n] :
        n \in TimingNows, a \in TimingOffsets, b \in TimingOffsets }

TimingInputInit ==
    /\ validationInput \in TimingInputs
    /\ validationResult = Null
    /\ ceInput = Null
    /\ ceResult = "none"
    /\ hfInput = Null
    /\ hfResult = Null

ValidateOrderTiming ==
    /\ validationInput # Null
    /\ validationResult = Null
    /\ validationResult' = TimingResult(validationInput.order, validationInput.now)
    /\ UNCHANGED <<ceInput, ceResult, hfInput, hfResult, validationInput,
                   queryVars, storeVars, serviceVars>>

TimingNext == ValidateOrderTiming

\* Addresses are written short; ethers.utils.isAddress accepts these.
EthereumAddresses == {"0xd1", "0xd2", "0xt1", "0xt2", "0xs1"}

\* isValidAddress(address): ethers.utils.isAddress(address)
isValidAddress(address) == address \in EthereumAddresses

\* validatePercentage(percentage, allowZero = false); a raised BigInt() ends
\* in the catch block.
validatePercentage(percentage, allowZero) ==
    LET num == BigInt(percentage)
    IN  IF ~num.ok THEN FALSE
        ELSE IF ~allowZero /\ num.value = 0 THEN FALSE
        ELSE num.value >= 0 /\ num.value <= 10000

RECURSIVE SumOfPercentages(_, _)
\* percentages.reduce((acc, p) => acc + BigInt(p), BigInt(0)); not ok when a
\* BigInt() raised.
SumOfPercentages(percentages, acc) ==
    IF percentages = <<>> THEN [ok |-> TRUE, value |-> acc]
    ELSE IF ~BigInt(Head(percentages)).ok THEN [ok |-> FALSE, value |-> 0]
    ELSE SumOfPercentages(Tail(percentages), acc + BigInt(Head(percentages)).value)

\* validatePercentagesSum(percentages)
validatePercentagesSum(percentages) ==
    LET sum == SumOfPercentages(percentages, 0)
    IN  sum.ok /\ sum.value = 10000

\* r and s are written short; /^0x[a-fA-F0-9]{64}$/ accepts these.
Bytes32Hex == {"0xr1", "0xs1"}

\* One message for each of n elements of an array that fail their test; the
\* messages are written without the value interpolated at their end.
ErrorPerElement(n, message) == [k \in 1 .. n |-> message]

\* The errors array of validatePartialSellOrder(order), in the order of the
\* pushes.
PartialSellOrderErrors(order, nowSeconds) ==
    LET BadAddress(c) == ~isValidAddress(c)
        BadPercent(p) == ~validatePercentage(p, FALSE)
        Push(failed, message) == IF failed THEN <<message>> ELSE <<>>
    IN  Push(~isValidAddress(order.debt), "Invalid debt address")
        \o Push(~isValidAddress(order.repayToken), "Invalid repay token address")
        \o Push(Len(order.collateralOut) = 0, "Must specify at least one collateral token")
        \o ErrorPerElement(Len(SelectSeq(order.collateralOut, BadAddress)),
                           "Invalid collateral address: ")
        \o Push(Len(order.percents) # Len(order.collateralOut),
                "Collateral tokens and percentages arrays must have same length")
        \o Push(~validatePercentagesSum(order.percents),
                "Percentages must sum to 10000 (100%)")
        \o ErrorPerElement(Len(SelectSeq(order.percents, BadPercent)),
                           "Invalid percentage value: ")
        \o Push(~TimingResult(order, nowSeconds).valid,
                TimingResult(order, nowSeconds).reason)
        \o Push(~isValidBigNumberString(order.triggerHF), "Invalid trigger health factor")
        \o Push(~isValidBigNumberString(order.repayAmount), "Invalid repay amount")
        \o Push(~validatePercentage(order.bonus, TRUE), "Invalid bonus percentage")
        \o Push(order.interestRateMode \notin {1, 2},
                "Interest rate mode must be 1 (stable) or 2 (variable)")
        \o Push(order.v < 27 \/ order.v > 28, "Invalid signature v value")
        \o Push(order.r \notin Bytes32Hex, "Invalid signature r component")
        \o Push(order.s \notin Bytes32Hex, "Invalid signature s component")

\* validatePartialSellOrder(order): { valid: errors.length === 0, errors }
validatePartialSellOrder(order, nowSeconds) ==
    [valid |-> Len(PartialSellOrderErrors(order, nowSeconds)) = 0,
     errors |-> PartialSellOrderErrors(order, nowSeconds)]

\* Percentage strings: "0", "10000", "5000", "4000", "10001", "-1", "", "1.5".
PercentStrings ==
    { <<"0">>, <<"1", "0", "0", "0", "0">>, <<"5", "0", "0", "0">>,
      <<"4", "0", "0", "0">>, <<"1", "0", "0", "0", "1">>, <<"-", "1">>, <<>>,
      <<"1", ".", "5">> }

MaxPercents == 2

\* Arrays of at most n percentage strings.
PercentLists(n) ==
    UNION { [1 .. k -> PercentStrings] : k \in 0 .. n }

\* collateralOut: no token, one, two, and one that is no address.
CollateralLists == { <<>>, <<"0xt1">>, <<"0xt1", "0xt2">>, <<"not-an-address">> }

\* Partial sale orders that differ in collateralOut and percents; the other
\* fields pass their tests at PartialNow.
PartialNow == 3600

PartialOrders ==
    { [debt |-> "0xd1", repayToken |-> "0xt1", collateralOut |-> c, percents |-> p,
       startTime |-> PartialNow, endTime |-> PartialNow + 1,
       triggerHF |-> <<"1", "5">>, repayAmount |-> <<"1">>, bonus |-> <<"0">>,
       interestRateMode |-> 2, v |-> 27, r |-> "0xr1", s |-> "0xs1"] :
        c \in CollateralLists, p \in PercentLists(MaxPercents) }

PartialInputInit ==
    /\ validationInput \in { [order |-> o, now |-> PartialNow] : o \in PartialOrders }
    /\ validationResult = Null
    /\ ceInput = Null
    /\ ceResult = "none"
    /\ hfInput = Null
    /\ hfResult = Null

ValidatePartialSellOrder ==
    /\ validationInput # Null
    /\ validationResult = Null
    /\ validationResult' = validatePartialSellOrder(validationInput.order,
                                                    validationInput.now)
    /\ UNCHANGED <<ceInput, ceResult, hfInput, hfResult, validationInput,
                   queryVars, storeVars, serviceVars>>

PartialNext == ValidatePartialSellOrder

\* The errors array of validateFullSellOrder(order), in the order of the
\* pushes.
FullSellOrderErrors(order, nowSeconds) ==
    LET Push(failed, message) == IF failed THEN <<message>> ELSE <<>>
    IN  Push(~isValidAddress(order.debt), "Invalid debt address")
        \o Push(~isValidAddress(order.token), "Invalid token address")
        \o Push(~TimingResult(order, nowSeconds).valid,
                TimingResult(order, nowSeconds).reason)
        \o Push(~isValidBigNumberString(order.triggerHF), "Invalid trigger health factor")
        \o Push(~validatePercentage(order.percentOfEquity, FALSE),
                "Invalid percent of equity (must be 1-10000)")
        \o Push(order.v < 27 \/ order.v > 28, "Invalid signature v value")
        \o Push(order.r \notin Bytes32Hex, "Invalid signature r component")
        \o Push(order.s \notin Bytes32Hex, "Invalid signature s component")

\* validateFullSellOrder(order): { valid: errors.length === 0, errors }
validateFullSellOrder(order, nowSeconds) ==
    [valid |-> Len(FullSellOrderErrors(order, nowSeconds)) = 0,
     errors |-> FullSellOrderErrors(order, nowSeconds)]

\* Full sale orders validated at FullNow: every window of TimingOffsets, a
\* debt that is an address or none, triggerHF "15" or "abc", percentOfEquity
\* "5000" or "0", v 27 or 29.
FullNow == 3601

FullOrders ==
    { [debt |-> d, token |-> "0xt1", startTime |-> FullNow + a, endTime |-> FullNow + b,
       triggerHF |-> hf, percentOfEquity |-> pct, v |-> v, r |-> "0xr1", s |-> "0xs1"] :
        d \in {"0xd1", "not-an-address"}, a \in TimingOffsets, b \in TimingOffsets,
        hf \in { <<"1", "5">>, <<"a", "b", "c">> },
        pct \in { <<"5", "0", "0", "0">>, <<"0">> }, v \in {27, 29} }

FullInputInit ==
    /\ validationInput \in { [order |-> o, now |-> FullNow] : o \in FullOrders }
    /\ validationResult = Null
    /\ ceInput = Null
    /\ ceResult = "none"
    /\ hfInput = Null
    /\ hfResult = Null

ValidateFullSellOrder ==
    /\ validationInput # Null
    /\ validationResult = Null
    /\ validationResult' = validateFullSellOrder(validationInput.order,
                                                 validationInput.now)
    /\ UNCHANGED <<ceInput, ceResult, hfInput, hfResult, validationInput,
                   queryVars, storeVars, serviceVars>>

FullNext == ValidateFullSellOrder

\* The two sides of the merge conflict the source of both verifiers holds
\* (<<<<<<< HEAD ... ======= ... >>>>>>> 8a29508): a build has one of them.
Resolutions == {"HEAD", "8a29508"}

\* The first argument of ethers.utils.recoverAddress. HEAD names structHash,
\* which no declaration of the verifier binds; 8a29508 names eip712Hash, the
\* value of createEIP712FullSellOrderHash / createEIP712PartialSellOrderHash.
VerificationDigest ==
    IF resolution = "HEAD" THEN "undeclared" ELSE "eip712Hash"

\* An exception raised inside the try block of a verifier.
Thrown == "thrown"

\* ethers.utils.recoverAddress(digest, {v, r, s}): the address of the key
\* that signed when the signature was made over this digest, an unrelated
\* address when it was made over another one; evaluating an undeclared name
\* raises ReferenceError, and malformed v, r, s make recoverAddress raise.
RecoverAddress(digest, request) ==
    IF digest = "undeclared" \/ request.signedOver = "malformed" THEN Thrown
    ELSE IF digest = request.signedOver THEN request.signedBy
    ELSE "0xunrelated"

\* A verifier without its catch block.
VerifyOutcome_Rethrow(recovered, expectedSigner) ==
    IF recovered = Thrown THEN "thrown"
    ELSE IF recovered = expectedSigner THEN "valid"
    ELSE "invalid"

\* try { ... return recoveredAddress.toLowerCase() === expectedSigner.toLowerCase() }
\* catch (error) { return false }
VerifyOutcome(recovered, expectedSigner) ==
    IF recovered = Thrown THEN "invalid"
    ELSE IF recovered = expectedSigner THEN "valid"
    ELSE "invalid"

\* verifyEIP712FullSellOrderSignature / verifyEIP712PartialSellOrderSignature
\* as the handler calls them, with the seller as expected signer.
SignatureCheck(request) ==
    VerifyOutcome(RecoverAddress(VerificationDigest, request), request.seller)

VerifySignature(request) == SignatureCheck(request) = "valid"

OrderOf(request) ==
    IF request.orderType = "FULL" THEN request.fullSellOrder
    ELSE request.partialSellOrder

\* A handler that verifies the signature before it validates the fields.
RejectionBeforeLookup_SignatureFirst(request, nowSeconds) ==
    IF request.orderType \notin {"FULL", "PARTIAL"}
    THEN [status |-> 400, error |-> "Invalid order type. Must be FULL or PARTIAL"]
    ELSE IF request.seller = ""
    THEN [status |-> 400, error |-> "Missing required fields: chainId, contractAddress, seller"]
    ELSE IF request.orderType = "FULL" /\ request.fullSellOrder = Null
    THEN [status |-> 400, error |-> "Full sell order data required for FULL order type"]
    ELSE IF request.orderType = "FULL" /\ request.partialSellOrder # Null
    THEN [status |-> 400, error |-> "Partial sell order data must be null for FULL order type"]
    ELSE IF request.orderType = "PARTIAL" /\ request.partialSellOrder = Null
    THEN [status |-> 400, error |-> "Partial sell order data required for PARTIAL order type"]
    ELSE IF request.orderType = "PARTIAL" /\ request.fullSellOrder # Null
    THEN [status |-> 400, error |-> "Full sell order data must be null for PARTIAL order type"]
    ELSE IF SignatureCheck(request) = "thrown"
    THEN [status |-> 500, error |-> "Internal server error"]
    ELSE IF ~VerifySignature(request)
    THEN [status |-> 400, error |-> "Invalid signature"]
    ELSE IF ValidationErrors(OrderOf(request), nowSeconds) # <<>>
    THEN [status |-> 400, error |-> "Invalid sell order",
          errors |-> ValidationErrors(OrderOf(request), nowSeconds)]
    ELSE Null

\* The checks of the handler that precede the store read: the answer of the
\* first failing check, or Null when all pass.
RejectionBeforeLookup(request, nowSeconds) ==
    IF request.orderType \notin {"FULL", "PARTIAL"}
    THEN [status |-> 400, error |-> "Invalid order type. Must be FULL or PARTIAL"]
    ELSE IF request.seller = ""
    THEN [status |-> 400, error |-> "Missing required fields: chainId, contractAddress, seller"]
    ELSE IF request.orderType = "FULL" /\ request.fullSellOrder = Null
    THEN [status |-> 400, error |-> "Full sell order data required for FULL order type"]
    ELSE IF request.orderType = "FULL" /\ request.partialSellOrder # Null
    THEN [status |-> 400, error |-> "Partial sell order data must be null for FULL order type"]
    ELSE IF request.orderType = "PARTIAL" /\ request.partialSellOrder = Null
    THEN [status |-> 400, error |-> "Partial sell order data required for PARTIAL order type"]
    ELSE IF request.orderType = "PARTIAL" /\ request.fullSellOrder # Null
    THEN [status |-> 400, error |-> "Full sell order data must be null for PARTIAL order type"]
    ELSE IF ValidationErrors(OrderOf(request), nowSeconds) # <<>>
    THEN [status |-> 400, error |-> "Invalid sell order",
          errors |-> ValidationErrors(OrderOf(request), nowSeconds)]
    ELSE IF SignatureCheck(request) = "thrown"
    THEN [status |-> 500, error |-> "Internal server error"]
    ELSE IF ~VerifySignature(request)
    THEN [status |-> 400, error |-> "Invalid signature"]
    ELSE Null

\* A duplicate check that does not look at the order type.
DuplicateFilter_AnyType(o, orderType, order) ==
    /\ o.debtAddress = order.debt
    /\ o.debtNonce = order.debtNonce
    /\ o.status = "ACTIVE"

\* Filter of the duplicate check:
\* { debtAddress, debtNonce, orderType, status: "ACTIVE" }
DuplicateFilter(o, orderType, order) ==
    /\ o.debtAddress = order.debt
    /\ o.debtNonce = order.debtNonce
    /\ o.orderType = orderType
    /\ o.status = "ACTIVE"

\* const existingOrder = await Order.findOne({...})
ExistingOrder(coll, request) ==
    FindOne({ o \in coll : DuplicateFilter(o, request.orderType, OrderOf(request)) })

\* The answer of the handler when its duplicate lookup finds a document.
ConflictResponse(existingOrder) ==
    [status |-> 409,
     existingOrderId |-> existingOrder.id,
     existingOrderExpiry |-> existingOrder.endTime]

\* The answer the handler gives without reaching save(), or Null when the
\* request proceeds to build and save its document.
LookupResponse(request) ==
    IF RejectionBeforeLookup(request, now) # Null
    THEN RejectionBeforeLookup(request, now)
    ELSE IF ExistingOrder(orders, request) # Null
    THEN ConflictResponse(ExistingOrder(orders, request))
    ELSE Null

\* A handler that saves the document before it answers a rejection.
StoreAfterRejection_Saved(coll, request) ==
    IF OrderOf(request) = Null \/ request.orderType \notin OrderTypes
    THEN coll
    ELSE coll \cup {OrderDocument(request.orderType, request.seller, OrderOf(request))}

\* The orders collection when the handler returns a 400 or a 409: every
\* such return precedes the only write of the handler, order.save().
StoreAfterRejection(coll, request) == coll

\* The handler answers a rejection: one of the returns before save().
CreateOrderRejected(request) ==
    /\ LookupResponse(request) # Null
    /\ orders' = StoreAfterRejection(orders, request)
    /\ lastRejection' = LookupResponse(request)
    /\ UNCHANGED <<pending, positions, now, isRunning, cronJob, startPc, passes,
                   queryVars, verdictVars, resolution, serviceVars>>

\* The handler up to and including the duplicate lookup, for a request that
\* is admitted: it waits for save().
CreateOrderLookup(request) ==
    /\ Cardinality(pending) < MaxPending
    /\ Cardinality(orders) + Cardinality(pending) < MaxOrders
    /\ LookupResponse(request) = Null
    /\ pending' = pending \cup {request}
    /\ UNCHANGED <<orders, positions, now, isRunning, cronJob, startPc, passes,
                   queryVars, verdictVars, lastRejection, resolution, serviceVars>>

\* The answer of save(): the unique index on id refuses a second document
\* with the same id and the handler's catch answers 500; otherwise 201.
SaveResponse(coll, document) ==
    IF \E o \in coll : o.id = document.id
    THEN [status |-> 500, error |-> "Internal server error"]
    ELSE [status |-> 201, id |-> document.id]

\* await order.save()
CreateOrderSave(request) ==
    LET document == OrderDocument(request.orderType, request.seller, OrderOf(request))
    IN  /\ request \in pending
        /\ pending' = pending \ {request}
        /\ orders' = IF SaveResponse(orders, document).status = 201
                     THEN orders \cup {document}
                     ELSE orders
        /\ UNCHANGED <<positions, now, isRunning, cronJob, startPc, passes,
                       queryVars, verdictVars, lastRejection, resolution, serviceVars>>

(***************************************************************************)
(* SubgraphCacheService: startCaching, the cron callback, forceRefresh,    *)
(* fetchAndCacheData and its appliers                                      *)
(***************************************************************************)

\* Who can have an invocation of fetchAndCacheData outstanding.
Callers == {"startCaching", "cron", "forceRefresh"}

\* An invocation record: its position (pc), the state of its appliers, and
\* the console.error lines it has written; the lines are kept until the next
\* pass starts.
IdlePass == [pc |-> "idle", debtPositions |-> <<>>, positionsPc |-> "done",
             positionIndex |-> 0, fullLeft |-> 0, partialLeft |-> 0,
             cancelledLeft |-> 0, logged |-> {}]

\* The console.error lines of the pass and of its appliers.
CacheUpdateFailed == "Cache update failed"
ApplierErrors == {"Failed to cache debt positions", "Failed to cancel orders",
                  "Failed to process order execution",
                  "Failed to process cancelled order"}

\* A pass whose catch block rethrows: the caller's await rejects.
EndOfPass_Rethrow(logged) ==
    [IdlePass EXCEPT !.pc = IF CacheUpdateFailed \in logged THEN "rejected" ELSE "idle",
                     !.logged = logged]

\* The end of fetchAndCacheData: catch (error) { console.error(...) } swallows
\* the error, finally clears the flag, and the promise the caller awaits
\* resolves.
EndOfPass(logged) == [IdlePass EXCEPT !.logged = logged]

\* An applier whose failure ends the other appliers of the pass.
ApplierCaught_Abort(pass, message) ==
    [pass EXCEPT !.logged = @ \cup {message}, !.positionsPc = "done",
                 !.fullLeft = 0, !.partialLeft = 0, !.cancelledLeft = 0]

\* catch (error) { console.error(...) } of an applier or of the function it
\* calls per entity: the error is logged and goes no further.
ApplierCaught(pass, message) == [pass EXCEPT !.logged = @ \cup {message}]

\* Debt position entities the indexer returns: id and nonce.
PositionEntities == [id : Addrs, nonce : 0 .. MaxNonce]

\* Arrays of n debt positions, each id once.
PositionArrays(n) ==
    { a \in [1 .. n -> PositionEntities] :
        \A i, j \in 1 .. n : i # j => a[i].id # a[j].id }

\* Title hashes an event of the indexer can name: those of the stored
\* orders, and one that names no stored order.
TitleHashes == { o.id : o \in orders } \cup { <<"0xunknown">> }

\* fullOrderExecutions / partialOrderExecutions entities.
ExecutionEntities ==
    { [id |-> "0xtx", titleHash |-> h, buyer |-> "0xb1", usdValue |-> "100",
       usdBonus |-> "5", blockTimestamp |-> 1, blockNumber |-> "7"] :
        h \in TitleHashes }

\* cancelledOrders entities.
CancelledEntities ==
    { [id |-> "0xc", titleHash |-> h, cancelledAt |-> 1] : h \in TitleHashes }

\* A guard that lets every invocation through.
AlreadyInProgress_Never == FALSE

\* if (this.isRunning) { ...skipping...; return; }   (fetchAndCacheData)
AlreadyInProgress == isRunning

\* if (!this.isRunning) { await this.fetchAndCacheData(); }   (cron callback)
CronSkips == isRunning

\* A pass without its finally block.
RunningAfterPass_Stuck == TRUE

\* finally { this.isRunning = false; }
RunningAfterPass == FALSE

\* The code of startCaching that follows its awaited initial pass: the cron
\* job is scheduled.
AfterPass(caller) ==
    IF caller = "startCaching"
    THEN /\ cronJob' = TRUE
         /\ startPc' = "done"
    ELSE UNCHANGED <<cronJob, startPc>>

\* An invocation that, meeting a pass in flight, waits for its turn instead
\* of returning.
fetchAndCacheData_Deferred(caller) ==
    /\ isRunning' = TRUE
    /\ passes' = [passes EXCEPT ![caller] = [IdlePass EXCEPT !.pc = "fetching"]]
    /\ IF caller = "startCaching"
       THEN startPc' = "awaiting" /\ UNCHANGED cronJob
       ELSE UNCHANGED <<cronJob, startPc>>

\* fetchAndCacheData up to its first await: the guard, isRunning = true, and
\* the call of fetchAllData.
fetchAndCacheData(caller) ==
    IF AlreadyInProgress
    THEN /\ AfterPass(caller)
         /\ UNCHANGED <<isRunning, passes>>
    ELSE /\ isRunning' = TRUE
         /\ passes' = [c \in Callers |->
                            IF c = caller THEN [IdlePass EXCEPT !.pc = "fetching"]
                            ELSE [passes[c] EXCEPT !.logged = {}]]
         /\ IF caller = "startCaching"
            THEN startPc' = "awaiting" /\ UNCHANGED cronJob
            ELSE UNCHANGED <<cronJob, startPc>>

\* startCaching(): caching is enabled and no cron job is set; the initial
\* pass is awaited.
StartCaching ==
    /\ startPc = "idle"
    /\ ~cronJob
    /\ fetchAndCacheData("startCaching")
    /\ UNCHANGED <<orders, positions, now, pending, queryVars, verdictVars, lastRejection, resolution, serviceVars>>

\* A tick of the cron job.
CronTick ==
    /\ cronJob
    /\ IF CronSkips
       THEN UNCHANGED <<isRunning, passes, cronJob, startPc>>
       ELSE fetchAndCacheData("cron")
    /\ UNCHANGED <<orders, positions, now, pending, queryVars, verdictVars, lastRejection, resolution, serviceVars>>

\* forceRefresh(), from POST /cache/refresh.
ForceRefresh ==
    /\ fetchAndCacheData("forceRefresh")
    /\ UNCHANGED <<orders, positions, now, pending, queryVars, verdictVars, lastRejection, resolution, serviceVars>>

\* stopCaching(), from gracefulShutdown: a cron job that is set is stopped
\* and forgotten; the call returns.
StopCaching ==
    /\ ~stopReturned
    /\ cronJob' = FALSE
    /\ stopReturned' = TRUE
    /\ UNCHANGED <<indexerEvents, fetchedEvents, orders, positions, now, isRunning,
                   startPc, passes, pending, lastRejection, resolution,
                   queryVars, verdictVars>>

\* The datasets fetchAllData asks the indexer for.
Datasets == {"users", "debtPositions", "fullOrderExecutions", "partialOrderExecutions",
             "priceTokens", "liquidationThresholds", "cancelledOrders",
             "protocolMetrics"}

\* How the eight fetches of one pass can end.
FetchOutcomes == [Datasets -> {"resolved", "rejected"}]

\* The datasets a pass hands to its appliers: fetchAllData awaits
\* Promise.all([...]) inside try and rethrows in catch, and fetchAndCacheData
\* reaches its Promise.all of appliers only when fetchAllData resolved.
AppliedDatasets(outcome) ==
    IF \A d \in Datasets : outcome[d] = "resolved" THEN Datasets ELSE {}

\* fetchAllData() resolves; Promise.all starts every applier. The arrays are
\* what the indexer answered: their lengths are drawn here, their entities
\* when the applier applies them. An applier of an empty array returns at
\* once.
FetchAllDataResolved(caller) ==
    /\ passes[caller].pc = "fetching"
    /\ { outcome \in FetchOutcomes : AppliedDatasets(outcome) = Datasets } # {}
    /\ \E nPositions, nFull, nPartial, nCancelled \in 0 .. MaxBatch :
        passes' = [passes EXCEPT ![caller] =
            [pc |-> "applying",
             debtPositions |-> <<>>,
             positionsPc |-> IF nPositions = 0 THEN "done" ELSE "bulkWrite",
             positionIndex |-> nPositions,
             fullLeft |-> nFull,
             partialLeft |-> nPartial,
             cancelledLeft |-> nCancelled,
             logged |-> {}]]
    /\ UNCHANGED <<orders, positions, now, isRunning, cronJob, startPc, pending,
                   queryVars, verdictVars, lastRejection, resolution, serviceVars>>

\* fetchAllData() rejects (an executeQuery threw): catch, then finally.
FetchAllDataRejected(caller) ==
    /\ passes[caller].pc = "fetching"
    /\ { outcome \in FetchOutcomes :
            /\ \E d \in Datasets : outcome[d] = "rejected"
            /\ AppliedDatasets(outcome) = {} } # {}
    /\ passes' = [passes EXCEPT ![caller] = EndOfPass({CacheUpdateFailed})]
    /\ isRunning' = RunningAfterPass
    /\ AfterPass(caller)
    /\ UNCHANGED <<orders, positions, now, pending, queryVars, verdictVars, lastRejection, resolution, serviceVars>>

\* cacheDebtPositions: DebtPosition.bulkWrite(operations), an upsert of every
\* position of the array.
CacheDebtPositionsBulkWrite(caller) ==
    /\ passes[caller].pc = "applying"
    /\ passes[caller].positionsPc = "bulkWrite"
    /\ \E array \in PositionArrays(passes[caller].positionIndex) :
        /\ positions' = [a \in Addrs |->
                            IF \E k \in DOMAIN array : array[k].id = a
                            THEN (CHOOSE e \in { array[k] : k \in DOMAIN array } :
                                      e.id = a).nonce
                            ELSE positions[a]]
        /\ passes' = [passes EXCEPT ![caller].debtPositions = array,
                                    ![caller].positionsPc = "cancel",
                                    ![caller].positionIndex = 1]
    /\ UNCHANGED <<orders, now, isRunning, cronJob, startPc, pending,
                   queryVars, verdictVars, lastRejection, resolution, serviceVars>>

\* cacheDebtPositions: one turn of the loop,
\* await this.cancelOldOrdersForDebtPosition(position.id, parseInt(position.nonce))
CacheDebtPositionsCancelOld(caller) ==
    LET pass == passes[caller]
        position == pass.debtPositions[pass.positionIndex]
    IN  /\ pass.pc = "applying"
        /\ pass.positionsPc = "cancel"
        /\ orders' = cancelOldOrdersForDebtPosition(orders, position.id,
                                                    position.nonce, NewDate)
        /\ passes' = [passes EXCEPT
                ![caller].positionsPc =
                    IF pass.positionIndex = Len(pass.debtPositions)
                    THEN "done" ELSE "cancel",
                ![caller].positionIndex = pass.positionIndex + 1]
        /\ UNCHANGED <<positions, now, isRunning, cronJob, startPc, pending,
                       queryVars, verdictVars, lastRejection, resolution, serviceVars>>

\* cacheFullOrders: one turn of the loop (the findOne read, then the updateOne).
CacheFullOrders(caller) ==
    /\ passes[caller].pc = "applying"
    /\ passes[caller].fullLeft > 0
    /\ \E execution \in ExecutionEntities :
        orders' = processFullOrderExecution(orders, execution)
    /\ passes' = [passes EXCEPT ![caller].fullLeft = passes[caller].fullLeft - 1]
    /\ UNCHANGED <<positions, now, isRunning, cronJob, startPc, pending,
                   queryVars, verdictVars, lastRejection, resolution, serviceVars>>

\* cachePartialOrders: one turn of the loop.
CachePartialOrders(caller) ==
    /\ passes[caller].pc = "applying"
    /\ passes[caller].partialLeft > 0
    /\ \E execution \in ExecutionEntities :
        orders' = processPartialOrderExecution(orders, execution)
    /\ passes' = [passes EXCEPT ![caller].partialLeft = passes[caller].partialLeft - 1]
    /\ UNCHANGED <<positions, now, isRunning, cronJob, startPc, pending,
                   queryVars, verdictVars, lastRejection, resolution, serviceVars>>

\* cacheCancelledOrders: one turn of the loop.
CacheCancelledOrders(caller) ==
    /\ passes[caller].pc = "applying"
    /\ passes[caller].cancelledLeft > 0
    /\ \E cancelledOrder \in CancelledEntities :
        orders' = processCancelledOrder(orders, cancelledOrder)
    /\ passes' = [passes EXCEPT
            ![caller].cancelledLeft = passes[caller].cancelledLeft - 1]
    /\ UNCHANGED <<positions, now, isRunning, cronJob, startPc, pending,
                   queryVars, verdictVars, lastRejection, resolution, serviceVars>>

\* cacheDebtPositions: DebtPosition.bulkWrite raises; the catch block of the
\* applier logs it and the loop of cancellations is not entered.
CacheDebtPositionsRaised(caller) ==
    /\ passes[caller].pc = "applying"
    /\ passes[caller].positionsPc = "bulkWrite"
    /\ passes' = [passes EXCEPT ![caller] =
            ApplierCaught([passes[caller] EXCEPT !.positionsPc = "done",
                                                 !.positionIndex = 0],
                          "Failed to cache debt positions")]
    /\ UNCHANGED <<orders, positions, now, isRunning, cronJob, startPc, pending,
                   queryVars, verdictVars, lastRejection, resolution, serviceVars>>

\* cancelOldOrdersForDebtPosition: Order.updateMany raises; its own catch
\* block logs it and the loop of cacheDebtPositions goes on.
CancelOldRaised(caller) ==
    LET pass == passes[caller]
    IN  /\ pass.pc = "applying"
        /\ pass.positionsPc = "cancel"
        /\ passes' = [passes EXCEPT ![caller] =
                ApplierCaught([pass EXCEPT
                                  !.positionsPc =
                                      IF pass.positionIndex = Len(pass.debtPositions)
                                      THEN "done" ELSE "cancel",
                                  !.positionIndex = pass.positionIndex + 1],
                              "Failed to cancel orders")]
        /\ UNCHANGED <<orders, positions, now, isRunning, cronJob, startPc, pending,
                       queryVars, verdictVars, lastRejection, resolution, serviceVars>>

\* processFullOrderExecution / processPartialOrderExecution: findOne or
\* updateOne raises; the catch block of the function logs it and the loop of
\* the applier goes on.
ProcessExecutionRaised(caller) ==
    /\ passes[caller].pc = "applying"
    /\ \/ /\ passes[caller].fullLeft > 0
          /\ passes' = [passes EXCEPT ![caller] =
                 ApplierCaught([passes[caller] EXCEPT !.fullLeft = @ - 1],
                               "Failed to process order execution")]
       \/ /\ passes[caller].partialLeft > 0
          /\ passes' = [passes EXCEPT ![caller] =
                 ApplierCaught([passes[caller] EXCEPT !.partialLeft = @ - 1],
                               "Failed to process order execution")]
    /\ UNCHANGED <<orders, positions, now, isRunning, cronJob, startPc, pending,
                   queryVars, verdictVars, lastRejection, resolution, serviceVars>>

\* processCancelledOrder: Order.updateOne raises; the catch block of the
\* function logs it and the loop of cacheCancelledOrders goes on.
ProcessCancelledRaised(caller) ==
    /\ passes[caller].pc = "applying"
    /\ passes[caller].cancelledLeft > 0
    /\ passes' = [passes EXCEPT ![caller] =
            ApplierCaught([passes[caller] EXCEPT !.cancelledLeft = @ - 1],
                          "Failed to process cancelled order")]
    /\ UNCHANGED <<orders, positions, now, isRunning, cronJob, startPc, pending,
                   queryVars, verdictVars, lastRejection, resolution, serviceVars>>

\* Every applier of the Promise.all has returned: the finally block.
PassCompleted(caller) ==
    /\ passes[caller].pc = "applying"
    /\ passes[caller].positionsPc = "done"
    /\ passes[caller].fullLeft = 0
    /\ passes[caller].partialLeft = 0
    /\ passes[caller].cancelledLeft = 0
    /\ passes' = [passes EXCEPT ![caller] = EndOfPass(passes[caller].logged)]
    /\ isRunning' = RunningAfterPass
    /\ AfterPass(caller)
    /\ UNCHANGED <<orders, positions, now, pending, queryVars, verdictVars, lastRejection, resolution, serviceVars>>

\* Query parameters of GET /orders/active: debtAddress and orderType, each
\* optional.
ActiveQueries == [debtAddress : Addrs \cup {Unset}, orderType : OrderTypes \cup {Unset}]

\* The filter of GET /orders/active, with now = new Date() of the handler:
\* { status: "ACTIVE", startTime: { $lte: now }, endTime: { $gte: now } }
\* and the query parameters that are present.
ActiveFilter(o, query, nowDate) ==
    /\ o.status = "ACTIVE"
    /\ o.startTime <= nowDate
    /\ o.endTime >= nowDate
    /\ query.debtAddress # Unset => o.debtAddress = query.debtAddress
    /\ query.orderType # Unset => o.orderType = query.orderType

\* What getCurrentHealthFactor answers for the positions: "15" or "20".
HealthFactors == [Addrs -> { <<"1", "5">>, <<"2", "0">> }]

\* The instants new Date() inside canExecuteOrder can give in a handler whose
\* own new Date() gave nowDate: the calls follow two awaits.
EvalInstants(nowDate) == {nowDate, nowDate + 1000}

\* One element of the answer: the order with its verdict.
Annotate(o, evalDate, currentHF) ==
    [order |-> o,
     canExecute |-> canExecuteOrder(evalDate, o.startTime, o.endTime, o.status,
                                    o.triggerHF, currentHF)]

\* A listing that answers every order of the filter.
ListActiveOrders_All(coll, query, nowDate, evalDate, currentHF) ==
    { Annotate(o, evalDate, currentHF[o.debtAddress]) :
        o \in { d \in coll : ActiveFilter(d, query, nowDate) } }

\* GET /orders/active: Order.find(filter), the verdict of every order found,
\* then .filter((order) => order.canExecute === "YES"). The limit of 50
\* exceeds the number of stored orders.
ListActiveOrders(coll, query, nowDate, evalDate, currentHF) ==
    { a \in { Annotate(o, evalDate, currentHF[o.debtAddress]) :
                o \in { d \in coll : ActiveFilter(d, query, nowDate) } } :
        a.canExecute = "YES" }

\* A clock step with a sweeper that stores the derived status.
Tick_Expiring ==
    /\ \E t \in Instants : t > now /\ now' = t
    /\ orders' = { IF o.status = "ACTIVE" /\ o.endTime < now' * 1000
                   THEN [o EXCEPT !.status = "EXPIRED"] ELSE o : o \in orders }
    /\ UNCHANGED <<positions, isRunning, cronJob, startPc, passes, pending,
                   queryVars, verdictVars, lastRejection, resolution, serviceVars>>

\* GET /orders: Order.find(filter) with filter.status = status, which is
\* "ACTIVE" unless the query names another one (first page; the page size
\* exceeds the number of stored orders).
ListOrders(coll, status) == { o \in coll : o.status = status }

\* Time passes.
Tick ==
    /\ \E t \in Instants : t > now /\ now' = t
    /\ UNCHANGED <<orders, positions, isRunning, cronJob, startPc, passes, pending,
                   queryVars, verdictVars, lastRejection, resolution, serviceVars>>

CreateOrder ==
    \/ \E request \in Requests : CreateOrderLookup(request)
    \/ \E request \in pending : CreateOrderSave(request)

StoreInit ==
    /\ orders = {}
    /\ positions = [a \in Addrs |-> NoPosition]
    /\ now = 0
    /\ isRunning = FALSE
    /\ cronJob = FALSE
    /\ startPc = "idle"
    /\ passes = [c \in Callers |-> IdlePass]
    /\ pending = {}
    /\ lastRejection = Null
    /\ resolution \in Resolutions
    /\ indexerEvents = <<>>
    /\ fetchedEvents = <<>>
    /\ stopReturned = FALSE

(***************************************************************************)
(* The indexer's execution events and the page a pass fetches              *)
(***************************************************************************)

\* Events of a page: fetchFullOrderExecutions(first = 100, skip = 0) is called
\* without arguments; the pages here hold PageSize events.
PageSize == 2

\* Most events the indexer exposes.
MaxFeed == PageSize + 2

\* A fetch that follows the pages to the end of the list.
fetchFullOrderExecutions_AllPages(events) == events

\* fetchFullOrderExecutions(): fullOrderExecutions(first, skip: 0,
\* orderBy: blockTimestamp, orderDirection: desc), the newest events.
fetchFullOrderExecutions(events) ==
    SubSeq(events, 1, IF Len(events) < PageSize THEN Len(events) ELSE PageSize)

\* The stored order the events are about.
FeedOrder == OrderDocument("FULL", "0xs1", Payload("0xd1", 0, <<0, 1>>))

\* Title hashes of orders this backend does not store.
OtherHashes == { <<"0xunknown">>, <<"0xother">> }

ExecutionEvent(titleHash, blockTimestamp) ==
    [id |-> "0xtx", titleHash |-> titleHash, buyer |-> "0xb1", usdValue |-> "100",
     usdBonus |-> "5", blockTimestamp |-> blockTimestamp, blockNumber |-> "7"]

\* The indexer exposes the execution of the title hash.
Exposed(titleHash) ==
    \E k \in DOMAIN indexerEvents : indexerEvents[k].titleHash = titleHash

\* An order is executed on chain and the indexer publishes the event: it is
\* the newest one. A stored order is executed once.
IndexerPublishes ==
    /\ Len(indexerEvents) < MaxFeed
    /\ \E h \in { o.id : o \in orders } \cup OtherHashes :
          /\ h \in OtherHashes \/ ~Exposed(h)
          /\ indexerEvents' =
                <<ExecutionEvent(h, Len(indexerEvents) + 1)>> \o indexerEvents
    /\ UNCHANGED <<fetchedEvents, stopReturned, queryVars, verdictVars, storeVars>>

\* A tick of the cron job with no pass in flight: fetchAndCacheData up to the
\* array fetchAllData resolves with for fullOrderExecutions.
SyncFetch ==
    /\ ~AlreadyInProgress
    /\ isRunning' = TRUE
    /\ fetchedEvents' = fetchFullOrderExecutions(indexerEvents)
    /\ UNCHANGED <<indexerEvents, stopReturned, orders, positions, now, cronJob, startPc,
                   passes, pending, lastRejection, resolution, queryVars, verdictVars>>

\* cacheFullOrders: one turn of the loop.
SyncApply ==
    /\ isRunning
    /\ fetchedEvents # <<>>
    /\ orders' = processFullOrderExecution(orders, Head(fetchedEvents))
    /\ fetchedEvents' = Tail(fetchedEvents)
    /\ UNCHANGED <<indexerEvents, stopReturned, positions, now, isRunning, cronJob, startPc,
                   passes, pending, lastRejection, resolution, queryVars, verdictVars>>

\* The appliers have returned: the finally block.
SyncDone ==
    /\ isRunning
    /\ fetchedEvents = <<>>
    /\ isRunning' = RunningAfterPass
    /\ UNCHANGED <<indexerEvents, fetchedEvents, stopReturned, orders, positions, now,
                   cronJob, startPc, passes, pending, lastRejection, resolution,
                   queryVars, verdictVars>>

SyncSteps == SyncFetch \/ SyncApply \/ SyncDone

FeedNext == IndexerPublishes \/ SyncSteps

\* The store holds one ACTIVE order; the cron job is set.
FeedStoreInit ==
    /\ now = 0
    /\ orders = {FeedOrder}
    /\ positions = [a \in Addrs |-> NoPosition]
    /\ isRunning = FALSE
    /\ cronJob = TRUE
    /\ startPc = "done"
    /\ passes = [c \in Callers |-> IdlePass]
    /\ pending = {}
    /\ lastRejection = Null
    /\ resolution = "8a29508"
    /\ indexerEvents = <<>>
    /\ fetchedEvents = <<>>
    /\ stopReturned = FALSE

\* The steps of the passes of the given callers.
PassSteps(callers) ==
    \E caller \in callers :
        \/ FetchAllDataResolved(caller)
        \/ FetchAllDataRejected(caller)
        \/ CacheDebtPositionsBulkWrite(caller)
        \/ CacheDebtPositionsCancelOld(caller)
        \/ CacheFullOrders(caller)
        \/ CachePartialOrders(caller)
        \/ CacheCancelledOrders(caller)
        \/ PassCompleted(caller)

\* The steps of the passes of the given callers in which a store write
\* raises.
RaisedSteps(callers) ==
    \E caller \in callers :
        \/ CacheDebtPositionsRaised(caller)
        \/ CancelOldRaised(caller)
        \/ ProcessExecutionRaised(caller)
        \/ ProcessCancelledRaised(caller)

\* The API server with its store: createOrder requests, the clock, and sync
\* passes started through POST /cache/refresh.
StoreNext ==
    \/ ForceRefresh
    \/ PassSteps({"forceRefresh"})
    \/ CreateOrder
    \/ Tick

\* The order routes alone: createOrder requests of every kind, rejected ones
\* included, and the clock.
CreateNext ==
    \/ \E request \in Requests : CreateOrderRejected(request)
    \/ CreateOrder
    \/ Tick

\* The scheduling of the passes: startCaching, the cron job and forceRefresh,
\* with no createOrder request.
SchedNext ==
    \/ StartCaching
    \/ CronTick
    \/ ForceRefresh
    \/ PassSteps(Callers)
    \/ RaisedSteps(Callers)

(***************************************************************************)
(* Specifications                                                          *)
(***************************************************************************)

Init == QueryInit /\ VerdictInit /\ StoreInit

Next == StoreNext

Spec == Init /\ [][Next]_vars

\* The specifications in which no signature is verified take the build
\* of the later commit.
InitBuilt == Init /\ resolution = "8a29508"

SpecSched == InitBuilt /\ [][SchedNext]_vars

\* Every await of a pass settles: the upstream requests return or time out
\* and the store answers, so a pass that can take a step takes one.
SchedFairness == WF_vars(PassSteps(Callers) \/ RaisedSteps(Callers))

SpecSchedFair == InitBuilt /\ [][SchedNext]_vars /\ SchedFairness

SpecCreate == Init /\ [][CreateNext]_vars

SpecQuery == InitBuilt /\ [][QueryNext]_vars

InitVerdict ==
    QueryInit /\ VerdictInputInit /\ StoreInit /\ resolution = "8a29508"

SpecVerdict == InitVerdict /\ [][VerdictNext]_vars

InitHF ==
    QueryInit /\ HFInputInit /\ StoreInit /\ resolution = "8a29508"

SpecHF == InitHF /\ [][HFNext]_vars

InitTiming == QueryInit /\ TimingInputInit /\ StoreInit /\ resolution = "8a29508"

SpecTiming == InitTiming /\ [][TimingNext]_vars

InitPartial == QueryInit /\ PartialInputInit /\ StoreInit /\ resolution = "8a29508"

SpecPartial == InitPartial /\ [][PartialNext]_vars

InitFull == QueryInit /\ FullInputInit /\ StoreInit /\ resolution = "8a29508"

SpecFull == InitFull /\ [][FullNext]_vars

InitFeed == QueryInit /\ VerdictInit /\ FeedStoreInit

SpecFeed == InitFeed /\ [][FeedNext]_vars

\* The scheduling of SpecSched and stopCaching; the process that has called
\* stopCaching is shutting down and does not call startCaching again.
StartCachingBeforeStop == ~stopReturned /\ StartCaching

StopNext ==
    \/ StartCachingBeforeStop
    \/ CronTick
    \/ ForceRefresh
    \/ PassSteps(Callers)
    \/ RaisedSteps(Callers)
    \/ StopCaching

SpecStop == InitBuilt /\ [][StopNext]_vars

\* The cron job keeps ticking and every fetch is answered: a pass that can
\* take a step takes one. Nothing obliges the indexer to publish.
FeedFairness == WF_vars(SyncSteps)

SpecFeedFair == InitFeed /\ [][FeedNext]_vars /\ FeedFairness

(***************************************************************************)
(* Properties of the order store and of the sync passes                    *)
(***************************************************************************)

Terminal == {"EXECUTED", "CANCELLED"}

NonceReason == "Position nonce updated - old orders cancelled"

\* C1: in every reachable state at most one order with stored status ACTIVE
\* exists per (debtAddress, orderType) pair.
C1_OneActivePerPositionAndType ==
    \A o1, o2 \in orders :
        (/\ o1.status = "ACTIVE"
         /\ o2.status = "ACTIVE"
         /\ o1.debtAddress = o2.debtAddress
         /\ o1.orderType = o2.orderType) => o1 = o2

\* C2: an order whose stored status is EXECUTED or CANCELLED keeps that
\* status in every step.
C2_TerminalStatusIsFinal ==
    [][\A o \in orders :
          o.status \in Terminal =>
              \A o2 \in orders' : o2.id = o.id => o2.status = o.status]_vars

\* The passes in flight: the invocations of fetchAndCacheData past the guard
\* and not yet through the finally block.
InFlight == { c \in Callers : passes[c].pc # "idle" }

\* C3: at no time are two sync passes in flight at once.
C3_OnePassInFlight == Cardinality(InFlight) <= 1

\* A pass started through forceRefresh is applying its data while the cron
\* job is scheduled, so a tick arriving now meets the guard.
C3_Witness ==
    /\ cronJob
    /\ startPc = "done"
    /\ isRunning
    /\ passes["forceRefresh"].pc = "applying"
    /\ passes["cron"].pc = "idle"

\* What C4 states of a call cancelOldOrdersForDebtPosition(addr, n) that
\* turns the store before into the store after.
CancelOldPostcondition(before, after, addr, n) ==
    /\ { o.id : o \in after } = { o.id : o \in before }
    /\ Cardinality(after) = Cardinality(before)
    /\ \A o \in before :
        IF o.debtAddress = addr /\ o.status = "ACTIVE" /\ o.debtNonce < n
        THEN \E o2 \in after : o2.id = o.id /\ o2.status = "CANCELLED"
        ELSE o \in after

\* C4: after cancelOldOrdersForDebtPosition(addr, n) every order of addr
\* that was ACTIVE with signed nonce < n is CANCELLED, every ACTIVE order of
\* addr with signed nonce >= n is still ACTIVE, and no order of another debt
\* address and no non-ACTIVE order is changed.
C4_CancelOldOrders ==
    [][\A caller \in Callers :
          CacheDebtPositionsCancelOld(caller) =>
              LET pass == passes[caller]
                  position == pass.debtPositions[pass.positionIndex]
              IN  CancelOldPostcondition(orders, orders', position.id,
                                         position.nonce)]_vars

\* A pass has run cancelOldOrdersForDebtPosition("0xd1", 1) over a store that
\* held ACTIVE orders of 0xd1 signed at nonce 0 and at nonce 1.
C4_Witness ==
    /\ positions["0xd1"] = 1
    /\ \E o \in orders :
        /\ o.debtAddress = "0xd1"
        /\ o.debtNonce = 0
        /\ o.status = "CANCELLED"
        /\ o.cancelReason = NonceReason
    /\ \E o \in orders :
        /\ o.debtAddress = "0xd1"
        /\ o.debtNonce = 1
        /\ o.status = "ACTIVE"

\* C5: applying the same execution event, or the same cancellation event,
\* twice in a row leaves the order store as it was after the first
\* application.
C5_EventsAreIdempotent ==
    /\ \A execution \in ExecutionEntities :
        /\ processFullOrderExecution(
               processFullOrderExecution(orders, execution), execution)
             = processFullOrderExecution(orders, execution)
        /\ processPartialOrderExecution(
               processPartialOrderExecution(orders, execution), execution)
             = processPartialOrderExecution(orders, execution)
    /\ \A cancelledOrder \in CancelledEntities :
        processCancelledOrder(
            processCancelledOrder(orders, cancelledOrder), cancelledOrder)
          = processCancelledOrder(orders, cancelledOrder)

\* An execution event and a cancellation event have each been applied to a
\* stored order, and applying either again changes nothing.
C5_Witness ==
    /\ \E o \in orders, execution \in ExecutionEntities :
        /\ o.id = execution.titleHash
        /\ o.status = "EXECUTED"
        /\ o.txHash = execution.id
        /\ processFullOrderExecution(orders, execution) = orders
    /\ \E o \in orders, cancelledOrder \in CancelledEntities :
        /\ o.id = cancelledOrder.titleHash
        /\ o.status = "CANCELLED"
        /\ o.cancelReason = "Cancelled on-chain"
        /\ processCancelledOrder(orders, cancelledOrder) = orders

(***************************************************************************)
(* Properties of executeQuery                                              *)
(***************************************************************************)

\* C6: each executeQuery call attempts every endpoint at most once, in
\* round-robin order from its first attempt, and raises the
\* all-endpoints-failed error only after every endpoint has failed for it,
\* also when several calls are in flight.
C6_EveryEndpointOnceInOrder ==
    \A c \in CallIds :
        LET tried == calls[c].tried
        IN  /\ \A j, k \in DOMAIN tried : j # k => tried[j] # tried[k]
            /\ \A k \in 1 .. (Len(tried) - 1) :
                tried[k + 1] = (tried[k] + 1) % totalEndpoints
            /\ calls[c].pc = "thrown" =>
                { tried[k] : k \in DOMAIN tried } = Endpoints

\* C7: a call that succeeds on endpoint i returns the response of endpoint i,
\* and a call that starts when the last finished call succeeded on endpoint i
\* makes its first attempt on endpoint i.
C7_NextCallStartsAtSuccess ==
    \A c \in CallIds :
        /\ calls[c].pc = "returned" =>
            /\ calls[c].result = [data |-> calls[c].endpointIndex]
            /\ calls[c].endpointIndex = calls[c].tried[Len(calls[c].tried)]
        /\ (/\ calls[c].pc # "idle"
            /\ calls[c].startedAfter # Null
            /\ calls[c].startedAfter.kind = "ok") =>
                calls[c].tried[1] = calls[c].startedAfter.endpointIndex

\* The last finished call succeeded on the second backup after two failures,
\* and the call that started next is on the second backup.
C7_Witness ==
    \E c \in CallIds :
        /\ calls[c].pc = "awaiting"
        /\ calls[c].startedAfter # Null
        /\ calls[c].startedAfter.kind = "ok"
        /\ calls[c].startedAfter.failures = 2
        /\ calls[c].startedAfter.endpointIndex = 2
        /\ calls[c].tried = <<2>>

\* C8: when the last attempt of a call fails, the call ends with the
\* all-endpoints-failed error carrying the message of that last failure, and
\* returns no response.
C8_AllFailedCarriesLastError ==
    [][\A c \in CallIds :
          (ExecuteQueryFailure(c) /\ calls[c].i = totalEndpoints - 1) =>
              /\ calls'[c].pc = "thrown"
              /\ calls'[c].result = [error |-> AllFailedPrefix,
                                     last |-> calls'[c].lastMessage]
              /\ calls'[c].lastMessage \in ErrorMessages]_vars

\* A call has thrown after its attempts failed, the last one with a 429.
C8_Witness ==
    \E c \in CallIds :
        /\ calls[c].pc = "thrown"
        /\ Len(calls[c].tried) = totalEndpoints
        /\ calls[c].result = [error |-> AllFailedPrefix,
                              last |-> "Request failed with status code 429"]

\* C9: a call that starts when the last finished call had all its endpoints
\* failing makes its first attempt on the primary endpoint, index 0.
C9_ReturnToPrimaryAfterAllFailed ==
    \A c \in CallIds :
        (/\ calls[c].pc # "idle"
         /\ calls[c].startedAfter # Null
         /\ calls[c].startedAfter.kind = "failed") => calls[c].tried[1] = 0

(***************************************************************************)
(* Properties of canExecuteOrder                                           *)
(***************************************************************************)

\* The verdict of the first failing check, in the order status, expiry,
\* not-started, HF parse, HF compare.
FirstFailingCheck(in) ==
    IF in.status # "ACTIVE" THEN "NO - non active"
    ELSE IF in.nowDate > in.endTime THEN "NO - expired"
    ELSE IF in.nowDate < in.startTime THEN "NO - not started"
    ELSE IF ~BigInt(in.triggerHF).ok \/ ~BigInt(in.currentHF).ok
    THEN "NO - invalid HF format"
    ELSE IF BigInt(in.currentHF).value > BigInt(in.triggerHF).value
    THEN "NO - HF too high"
    ELSE "YES"

\* C10: canExecuteOrder returns the verdict of the first failing check in the
\* order status, expiry, not-started, HF parse, HF compare: a non-ACTIVE order
\* is reported non active even if expired, an order past its end time is
\* reported expired even if an HF string does not parse.
C10_FirstFailingCheckWins ==
    ceResult # "none" =>
        /\ ceResult = FirstFailingCheck(ceInput)
        /\ ceInput.status # "ACTIVE" => ceResult = "NO - non active"
        /\ (ceInput.status = "ACTIVE" /\ ceInput.nowDate > ceInput.endTime) =>
            ceResult = "NO - expired"

\* An ACTIVE order past its end time whose trigger HF does not parse has been
\* evaluated.
C10_Witness ==
    /\ ceResult = "NO - expired"
    /\ ceInput.status = "ACTIVE"
    /\ ceInput.nowDate > ceInput.endTime
    /\ ~BigInt(ceInput.triggerHF).ok

\* C11: canExecuteOrder returns YES exactly when the status is ACTIVE, the
\* clock is within [startTime, endTime], both HF strings are non-negative
\* integer strings and currentHF <= triggerHF; for an ACTIVE in-window order
\* it reports an invalid HF format whenever either HF string is not a
\* non-negative integer string.
C11_ExecutableExactlyWhen ==
    ceResult # "none" =>
        LET active == ceInput.status = "ACTIVE"
            inWindow == /\ ceInput.startTime <= ceInput.nowDate
                        /\ ceInput.nowDate <= ceInput.endTime
            validHF == /\ isValidBigNumberString(ceInput.triggerHF)
                       /\ isValidBigNumberString(ceInput.currentHF)
        IN  /\ (ceResult = "YES") <=>
                (/\ active
                 /\ inWindow
                 /\ validHF
                 /\ BigInt(ceInput.currentHF).value <= BigInt(ceInput.triggerHF).value)
            /\ (active /\ inWindow /\ ~validHF) =>
                ceResult = "NO - invalid HF format"

(***************************************************************************)
(* Properties of createOrder                                               *)
(***************************************************************************)

\* The stored ACTIVE orders of the debt address and order type of a request.
ActiveForPair(request) ==
    { o \in orders : /\ o.status = "ACTIVE"
                     /\ o.debtAddress = OrderOf(request).debt
                     /\ o.orderType = request.orderType }

\* C12: a createOrder request that passes the checks before the store read,
\* for a (debtAddress, orderType) pair that has a stored ACTIVE order, is
\* answered 409 with the id and end time of an ACTIVE order of that pair,
\* whatever the debt nonce of the new order.
C12_ConflictForEveryNonce ==
    \A request \in Requests :
        (/\ RejectionBeforeLookup(request, now) = Null
         /\ ActiveForPair(request) # {}) =>
            /\ LookupResponse(request) # Null
            /\ LookupResponse(request).status = 409
            /\ \E o \in ActiveForPair(request) :
                /\ LookupResponse(request).existingOrderId = o.id
                /\ LookupResponse(request).existingOrderExpiry = o.endTime

\* C13: a createOrder request that is answered with a rejection (bad order
\* type, missing fields, payload mismatch, validation errors, invalid
\* signature, conflict) leaves the orders collection as it was.
C13_RejectionLeavesStore ==
    [][\A request \in Requests :
          CreateOrderRejected(request) =>
              /\ lastRejection'.status \in {400, 409}
              /\ orders' = orders]_vars

\* A request has been answered 409 against a stored ACTIVE order.
C13_Witness ==
    /\ lastRejection # Null
    /\ lastRejection.status = 409
    /\ \E o \in orders :
        /\ o.status = "ACTIVE"
        /\ o.id = lastRejection.existingOrderId

\* The requests that pass every check the handler makes before it verifies
\* the signature.
ReachesSignatureCheck(request) ==
    /\ request \in Requests \ MalformedRequests
    /\ request.orderType \in {"FULL", "PARTIAL"}
    /\ ValidationErrors(OrderOf(request), now) = <<>>

InvalidSignature == [status |-> 400, error |-> "Invalid signature"]

\* C14: for every valid FULL or PARTIAL payload carrying a well-formed
\* signature, verification against the claimed seller is true when the key of
\* the seller signed and false when another key signed; createOrder lets the
\* request pass the signature check in the first case and answers
\* "Invalid signature" in the second.
C14_SellerSignatureVerifies ==
    \A request \in Requests :
        ReachesSignatureCheck(request) /\ request.signedOver # "malformed" =>
            IF request.signedBy = request.seller
            THEN /\ VerifySignature(request)
                 /\ RejectionBeforeLookup(request, now) = Null
            ELSE /\ ~VerifySignature(request)
                 /\ RejectionBeforeLookup(request, now) = InvalidSignature

\* The digests over which a signature of the seller is accepted for orders
\* of one type.
ActiveSchemes(orderType) ==
    { d \in {"eip712Hash", "structHash"} :
        \E request \in Requests :
            /\ ReachesSignatureCheck(request)
            /\ request.orderType = orderType
            /\ request.signedBy = request.seller
            /\ request.signedOver = d
            /\ VerifySignature(request) }

\* C15: exactly one digest scheme is active, the same one for FULL and for
\* PARTIAL orders; a signature of the seller made over the digest of the
\* other scheme does not verify and is not admitted.
C15_OneDigestScheme ==
    (\A t \in {"FULL", "PARTIAL"} :
        \E request \in Requests :
            ReachesSignatureCheck(request) /\ request.orderType = t)
    => \E d \in {"eip712Hash", "structHash"} :
          \A t \in {"FULL", "PARTIAL"} : ActiveSchemes(t) = {d}

\* C16: signature verification never raises. Malformed v, r, s and a failure
\* while the digest is built both give false, and createOrder answers such a
\* request with the signature rejection (400), never with an internal error.
C16_VerificationNeverRaises ==
    \A request \in Requests :
        /\ SignatureCheck(request) \in {"valid", "invalid"}
        /\ ReachesSignatureCheck(request)
           /\ RecoverAddress(VerificationDigest, request) = Thrown
           => /\ ~VerifySignature(request)
              /\ RejectionBeforeLookup(request, now) = InvalidSignature

\* A request whose verification raised inside the try block (in the HEAD
\* build every recovery raises) has been answered "Invalid signature".
C16_Witness ==
    /\ resolution = "HEAD"
    /\ lastRejection = InvalidSignature
    /\ \E request \in Requests :
        /\ ReachesSignatureCheck(request)
        /\ request.signedOver = "malformed"

\* Stored ACTIVE although the end of the time window has passed.
PastEndTime(o) == o.status = "ACTIVE" /\ o.endTime < NewDate

\* C17: no operation stores the status EXPIRED. An order whose endTime has
\* passed keeps the stored status ACTIVE, and stays in the listing GET /orders
\* gives, until a step marks it EXECUTED (execution event) or CANCELLED
\* (cancellation event, advance of the position's nonce).
C17_ExpiredIsNeverStored ==
    /\ [](\A o \in orders : o.status # "EXPIRED")
    /\ [][\A o \in orders :
            PastEndTime(o) =>
                \/ o \in ListOrders(orders', "ACTIVE")
                \/ \E u \in orders' :
                     /\ u.id = o.id
                     /\ \/ u.status = "EXECUTED"
                        \/ /\ u.status = "CANCELLED"
                           /\ u.cancelReason \in {"Cancelled on-chain", NonceReason}]_vars

\* An order stored ACTIVE after its endTime, listed by GET /orders.
C17_Witness ==
    \E o \in orders : PastEndTime(o) /\ o \in ListOrders(orders, "ACTIVE")

\* Stored ACTIVE, matching the query, and inside its time window at nowDate.
ActiveInWindow(o, query, nowDate) ==
    /\ o.status = "ACTIVE"
    /\ o.startTime <= nowDate /\ nowDate <= o.endTime
    /\ query.debtAddress \in {Unset, o.debtAddress}
    /\ query.orderType \in {Unset, o.orderType}

C19_FetchFailureIsIsolated ==
    \A caller \in Callers :
        passes[caller].pc = "fetching" =>
            \A outcome \in FetchOutcomes :
                AppliedDatasets(outcome) =
                    { d \in Datasets : outcome[d] = "resolved" }

\* A step in which the applier of executions or of cancellations of the
\* caller's pass performs a store write.
OtherApplierWrites(caller) ==
    /\ passes[caller].pc = "applying"
    /\ passes'[caller].pc = "applying"
    /\ \/ passes'[caller].fullLeft < passes[caller].fullLeft
       \/ passes'[caller].partialLeft < passes[caller].partialLeft
       \/ passes'[caller].cancelledLeft < passes[caller].cancelledLeft

\* C20: within one pass the appliers run one after another. The applier of
\* positions, its nonce-driven cancellations included, has finished all its
\* store writes before the applier of any other dataset writes.
C20_PositionsAppliedFirst ==
    [][\A caller \in Callers :
          OtherApplierWrites(caller) => passes[caller].positionsPc = "done"]_vars

\* What the appliers of a pass still have to write.
RemainingWork(pass) ==
    <<pass.positionsPc, pass.positionIndex, pass.fullLeft, pass.partialLeft,
      pass.cancelledLeft>>

\* A step in which an applier of the caller's pass logs an error it caught.
ApplierFails(caller) ==
    /\ passes[caller].pc = "applying"
    /\ passes'[caller].logged \ passes[caller].logged # {}

\* C21: a store write of one applier raises. The error is caught: the pass
\* goes on applying, the work of the appliers of the other datasets is left
\* as it was, and the pass ends, without raising, only when every applier has
\* finished.
C21_ApplierFailureIsCaught ==
    [][\A caller \in Callers :
          /\ ApplierFails(caller) =>
                /\ passes'[caller].pc = "applying"
                /\ passes'[caller].logged \subseteq ApplierErrors
                /\ \/ /\ passes'[caller].positionsPc = passes[caller].positionsPc
                      /\ passes'[caller].positionIndex = passes[caller].positionIndex
                      /\ passes'[caller].fullLeft + passes'[caller].partialLeft
                             + passes'[caller].cancelledLeft
                         = passes[caller].fullLeft + passes[caller].partialLeft
                             + passes[caller].cancelledLeft - 1
                   \/ /\ passes'[caller].positionsPc # passes[caller].positionsPc
                         \/ passes'[caller].positionIndex # passes[caller].positionIndex
                      /\ passes'[caller].fullLeft = passes[caller].fullLeft
                      /\ passes'[caller].partialLeft = passes[caller].partialLeft
                      /\ passes'[caller].cancelledLeft = passes[caller].cancelledLeft
          /\ passes[caller].pc = "applying" /\ passes'[caller].pc # "applying" =>
                /\ passes'[caller].pc = "idle"
                /\ RemainingWork(passes[caller]) = <<"done", passes[caller].positionIndex, 0, 0, 0>>
                /\ ~isRunning']_vars

\* A pass in which the applier of executions has failed and the applier of
\* positions has written the positions of this pass.
C21_Witness ==
    \E caller \in Callers :
        /\ passes[caller].pc = "applying"
        /\ "Failed to process order execution" \in passes[caller].logged
        /\ passes[caller].debtPositions # <<>>
        /\ \E a \in Addrs : positions[a] # NoPosition

\* A step in which the fetch of the caller's pass fails.
FetchFails(caller) ==
    /\ passes[caller].pc = "fetching"
    /\ passes'[caller].pc \notin {"fetching", "applying"}

\* C22: a pass in which the indexer cannot be reached (fetchAllData rejects)
\* changes nothing in the store, and its caller, a scheduled tick as well as
\* forceRefresh or startCaching, sees the call return: the pass is idle again
\* with the flag cleared, and startCaching goes on to schedule the cron job.
C22_FailedFetchChangesNothing ==
    [][\A caller \in Callers :
          FetchFails(caller) =>
              /\ orders' = orders
              /\ positions' = positions
              /\ passes'[caller].pc = "idle"
              /\ ~isRunning'
              /\ caller = "startCaching" => cronJob' /\ startPc' = "done"]_vars

\* The pass of forceRefresh has ended in the catch block while the cache
\* holds positions of an earlier pass.
C22_Witness ==
    /\ passes["forceRefresh"].pc = "idle"
    /\ CacheUpdateFailed \in passes["forceRefresh"].logged
    /\ ~isRunning
    /\ \E a \in Addrs : positions[a] # NoPosition

\* C23: every pass ends and clears the running flag, also a pass whose fetch
\* or whose appliers fail; once the flag is clear, a tick of the cron job
\* starts a new pass.
C23_FailedPassDoesNotBlock ==
    /\ isRunning ~> ~isRunning
    /\ \A caller \in Callers :
          passes[caller].pc # "idle" ~> passes[caller].pc = "idle"
    /\ [](~isRunning /\ cronJob =>
             ENABLED <<CronTick /\ passes'["cron"].pc = "fetching">>_vars)

\* A pass has ended after logging a failure, the flag is clear and the cron
\* job is scheduled.
C23_Witness ==
    /\ ~isRunning
    /\ cronJob
    /\ \E caller \in Callers :
        /\ passes[caller].pc = "idle"
        /\ passes[caller].logged # {}

\* C24: a tick or a forceRefresh that arrives while a pass is in flight
\* starts no pass. While the flag is set no step starts a pass, the step
\* that ends the pass in flight included: what arrived in between is not
\* kept for later.
C24_TriggerIsDropped ==
    [][isRunning =>
          \A caller \in Callers :
              passes'[caller].pc = "fetching" => passes[caller].pc = "fetching"]_vars

\* The pass of a tick is in flight and the passes of the other callers are
\* idle: a forceRefresh that arrives now meets the guard.
C24_Witness ==
    /\ isRunning
    /\ passes["cron"].pc \in {"fetching", "applying"}
    /\ passes["forceRefresh"].pc = "idle"
    /\ passes["startCaching"].pc = "idle"

\* The total debt value of the position looked up is zero: it has no debts,
\* or every product amount * price of its debts is zero.
ZeroDebtValue(in) ==
    \A k \in DOMAIN in.debts :
        LET amount == parseFloat(in.debts[k].amount)
            price == parseFloat(PriceOf(in.tokens, in.debts[k].token))
        IN  ~amount.nan /\ ~price.nan /\ (amount.n = 0 \/ price.n = 0)

\* C25: whenever the total debt value is zero, calculateHealthFactor returns
\* the sentinel 999999000000000000000000 and the division is not evaluated.
C25_ZeroDebtGivesSentinel ==
    hfResult # Null /\ hfInput.lookup = "found" /\ ZeroDebtValue(hfInput) =>
        /\ hfResult.result = InfiniteHF
        /\ ~hfResult.divided

\* A position with debts, all of value zero, has been given the sentinel.
C25_Witness ==
    /\ hfResult # Null
    /\ hfInput.lookup = "found"
    /\ ~hfInput.readFails
    /\ Len(hfInput.debts) = MaxDebts
    /\ ZeroDebtValue(hfInput)
    /\ hfResult.result = InfiniteHF

\* The health factor of the position looked up could not be computed: no
\* document, a store error, or a calculation that raised.
HFNotComputable(in) ==
    \/ in.lookup \in {"missing", "error"}
    \/ /\ in.lookup = "found"
       /\ in.debts # <<>>
       /\ \/ in.readFails
          \/ DebtValue(in.debts, in.tokens).nan
          \/ WeightedCollateralValue(in.collaterals, in.tokens, in.assetConfigs).nan

\* Trigger health factors of stored orders: 0.15 and 1.5.
TriggerStrings == { <<"1", "5">>, <<"1", "5", "0">> }

\* C26: when the health factor of the position of an order cannot be
\* computed on a read path, canExecuteOrder is handed the infinite-HF
\* sentinel, so an ACTIVE order inside its time window is not given the
\* verdict "YES" because of the failure.
C26_FailedHealthFactorIsNotExecutable ==
    hfResult # Null /\ HFNotComputable(hfInput) =>
        /\ hfResult.result = InfiniteHF
        /\ \A triggerHF \in TriggerStrings :
              canExecuteOrder(1000, 0, 2000, "ACTIVE", triggerHF, hfResult.result) # "YES"

\* C27: the stored nonce of a debt position never decreases, whatever the
\* snapshots of the passes are and whichever endpoint served them.
C27_StoredNonceNeverDecreases ==
    [][\A a \in Addrs :
          positions[a] # NoPosition => positions'[a] >= positions[a]]_vars

\* C28: a stored order carries execution fields only if its status is
\* EXECUTED, and cancellation metadata only if its status is CANCELLED.
C28_FieldsMatchStatus ==
    \A o \in orders :
        /\ o.status # "EXECUTED" =>
              /\ o.buyer = Unset /\ o.txHash = Unset /\ o.blockNumber = Unset
              /\ o.usdValue = Unset /\ o.usdBonus = Unset
        /\ o.status # "CANCELLED" =>
              o.cancelledAt = NoDate /\ o.cancelReason = Unset

\* C29: timing validation rejects an order exactly when startTime is not
\* strictly before endTime, or endTime is not after now, or startTime lies
\* more than 3600 seconds before now; startTime = now - 3600 is accepted.
C29_TimingRejectsExactly ==
    validationResult # Null =>
        LET order == validationInput.order
            nowSeconds == validationInput.now
        IN  /\ ~validationResult.valid <=>
                  \/ order.startTime >= order.endTime
                  \/ order.endTime <= nowSeconds
                  \/ order.startTime < nowSeconds - 3600
            /\ (order.startTime = nowSeconds - 3600
                    /\ order.startTime < order.endTime
                    /\ order.endTime > nowSeconds) => validationResult.valid

\* The percentage is an integer of [0, 10000].
PercentInRange(p) == BigInt(p).ok /\ BigInt(p).value \in 0 .. 10000

\* C30: with valid collateral addresses and the other fields valid,
\* validatePartialSellOrder accepts exactly when the collateral list is not
\* empty, the percentage list has its length, every percentage is an integer
\* of [0, 10000], zero included, and the percentages sum to 10000.
C30_PercentListAcceptedExactly ==
    validationResult # Null =>
        LET order == validationInput.order
        IN  (\A k \in DOMAIN order.collateralOut : isValidAddress(order.collateralOut[k]))
            => (validationResult.valid <=>
                    /\ order.collateralOut # <<>>
                    /\ Len(order.percents) = Len(order.collateralOut)
                    /\ \A k \in DOMAIN order.percents : PercentInRange(order.percents[k])
                    /\ SumOfPercentages(order.percents, 0).value = 10000)

\* The rules of a full sale order that the order violates at nowSeconds.
ViolatedFullRules(order, nowSeconds) ==
    { rule \in {"debt", "token", "startBeforeEnd", "notExpired", "startInGrace",
                "triggerHF", "percentOfEquity", "v", "r", "s"} :
        \/ rule = "debt" /\ ~isValidAddress(order.debt)
        \/ rule = "token" /\ ~isValidAddress(order.token)
        \/ rule = "startBeforeEnd" /\ order.startTime > order.endTime
        \/ rule = "notExpired" /\ order.endTime <= nowSeconds
        \/ rule = "startInGrace" /\ order.startTime < nowSeconds - 3600
        \/ rule = "triggerHF" /\ ~isValidBigNumberString(order.triggerHF)
        \/ rule = "percentOfEquity" /\ ~PercentInRange(order.percentOfEquity)
        \/ rule = "percentOfEquity" /\ BigInt(order.percentOfEquity).value = 0
        \/ rule = "v" /\ order.v \notin {27, 28}
        \/ rule = "r" /\ order.r \notin Bytes32Hex
        \/ rule = "s" /\ order.s \notin Bytes32Hex }

\* C31: validateFullSellOrder returns one error entry for every rule the
\* order violates, several violated timing rules included.
C31_OneErrorPerViolatedRule ==
    validationResult # Null =>
        Len(validationResult.errors)
            = Cardinality(ViolatedFullRules(validationInput.order, validationInput.now))

\* A createOrder request of the seller of a stored order for the same debt
\* position, debt nonce and order type, with a window that starts now.
Renewal(o) ==
    Request(o.orderType, o.seller, o.seller, "eip712Hash",
            Payload(o.debtAddress, o.debtNonce, <<now, now + 3600>>))

\* C32: once the endTime of a stored ACTIVE order has passed, a createOrder
\* request for the same debt position, debt nonce and order type meets no
\* conflict: the duplicate lookup does not answer 409.
C32_ExpiryEndsConflict ==
    \A o \in orders :
        (o.status = "ACTIVE" /\ o.endTime < NewDate)
            => (LookupResponse(Renewal(o)) = Null
                    \/ LookupResponse(Renewal(o)).status # 409)

CheckOrder ==
    <<"orderType", "requiredFields", "payload", "fields", "signature", "duplicate">>

\* The request carries exactly the payload of its order type.
PayloadOfTypeOnly(request) ==
    /\ request.orderType = "FULL" =>
           request.fullSellOrder # Null /\ request.partialSellOrder = Null
    /\ request.orderType = "PARTIAL" =>
           request.partialSellOrder # Null /\ request.fullSellOrder = Null

\* The checks a request fails; a check that needs the payload of the order
\* type is evaluated only when that payload is there.
FailedChecks(request) ==
    LET typed == request.orderType \in {"FULL", "PARTIAL"}
        carried == typed /\ PayloadOfTypeOnly(request)
    IN  { k \in DOMAIN CheckOrder :
            \/ CheckOrder[k] = "orderType" /\ ~typed
            \/ CheckOrder[k] = "requiredFields" /\ request.seller = ""
            \/ CheckOrder[k] = "payload" /\ typed /\ ~PayloadOfTypeOnly(request)
            \/ CheckOrder[k] = "fields" /\ carried
                  /\ ValidationErrors(OrderOf(request), now) # <<>>
            \/ CheckOrder[k] = "signature" /\ carried
                  /\ SignatureCheck(request) # "valid"
            \/ CheckOrder[k] = "duplicate" /\ carried
                  /\ \E o \in orders :
                        /\ o.debtAddress = OrderOf(request).debt
                        /\ o.debtNonce = OrderOf(request).debtNonce
                        /\ o.orderType = request.orderType
                        /\ o.status = "ACTIVE" }

\* The check a rejection reports.
CheckOfResponse(response) ==
    IF response.status = 409 THEN "duplicate"
    ELSE IF response.error = "Invalid order type. Must be FULL or PARTIAL" THEN "orderType"
    ELSE IF response.error = "Missing required fields: chainId, contractAddress, seller"
    THEN "requiredFields"
    ELSE IF response.error = "Invalid sell order" THEN "fields"
    ELSE IF response.error \in {"Invalid signature", "Internal server error"}
    THEN "signature"
    ELSE "payload"

\* C34: createOrder answers with the first failing check of the order: order
\* type, required fields, payload, field validation, signature, duplicate;
\* a request waits for save() only if it failed none, and every stored order
\* is ACTIVE and is the document of a request that passed the checks before
\* the lookup.
C34_FirstFailingCheckIsReported ==
    /\ \A request \in Requests :
          LET failed == FailedChecks(request)
          IN  IF failed = {} THEN LookupResponse(request) = Null
              ELSE /\ LookupResponse(request) # Null
                   /\ CheckOfResponse(LookupResponse(request))
                          = CheckOrder[CHOOSE k \in failed : \A j \in failed : k <= j]
    /\ lastRejection # Null => lastRejection.status \in {400, 409, 500}
    /\ \A o \in orders :
          /\ o.status = "ACTIVE"
          /\ \E request \in Requests, t \in Instants :
                /\ t <= now
                /\ RejectionBeforeLookup(request, t) = Null
                /\ o.id = generateOrderId(request.orderType, OrderOf(request))

\* A request that fails both the field validation and the signature
\* verification has been answered with the validation errors.
C34_Witness ==
    /\ lastRejection # Null
    /\ lastRejection.error = "Invalid sell order"
    /\ \E request \in Requests :
          /\ request.orderType \in {"FULL", "PARTIAL"} /\ PayloadOfTypeOnly(request)
          /\ request.seller # ""
          /\ ValidationErrors(OrderOf(request), now) # <<>>
          /\ SignatureCheck(request) # "valid"
          /\ LookupResponse(request) = lastRejection

\* The orders of the store after the step that are not in the store before it.
WrittenOrders == orders' \ orders

\* A step of an execution applier for events of the order type: it creates
\* no order, it leaves every order of the other type as it is, and what it
\* writes is a stored order of its type, now EXECUTED.
ExecutionStepFrame(orderType) ==
    /\ { o.id : o \in orders' } = { o.id : o \in orders }
    /\ Cardinality(orders') = Cardinality(orders)
    /\ { o \in orders : o.orderType # orderType } \subseteq orders'
    /\ \A w \in WrittenOrders :
          /\ w.orderType = orderType
          /\ w.status = "EXECUTED"
          /\ \E o \in orders : o.id = w.id /\ o.orderType = orderType

MarkedExecuted(execution, orderType) ==
    \A o \in orders :
        (o.id = execution.titleHash /\ o.orderType = orderType)
            => \E w \in orders' : w.id = o.id /\ w.status = "EXECUTED"

\* C36: when a pass carries a position snapshot whose nonce exceeds the
\* signed nonce of an order and an execution event for that order, the order
\* ends EXECUTED in either order of the two appliers: the step of the
\* execution applier marks the order its event names whatever the status
\* the nonce cancellation has left, and the nonce cancellation leaves an
\* EXECUTED order as it is.
C36_ExecutionWinsOverNonceCancellation ==
    [][ \A caller \in Callers :
          /\ CacheFullOrders(caller) =>
                \A execution \in ExecutionEntities :
                    orders' = processFullOrderExecution(orders, execution)
                        => MarkedExecuted(execution, "FULL")
          /\ CachePartialOrders(caller) =>
                \A execution \in ExecutionEntities :
                    orders' = processPartialOrderExecution(orders, execution)
                        => MarkedExecuted(execution, "PARTIAL")
          /\ CacheDebtPositionsCancelOld(caller) =>
                \A o \in orders : o.status = "EXECUTED" => o \in orders' ]_vars

\* The nonce cancellation came first and the execution event after it: the
\* order is EXECUTED, below the stored nonce of its position, and still
\* carries the reason of the nonce cancellation.
C36_Witness ==
    \E o \in orders :
        /\ o.status = "EXECUTED"
        /\ o.cancelReason = NonceReason
        /\ positions[o.debtAddress] > o.debtNonce

\* C37: when a sync pass completes, no stored ACTIVE order has a signed
\* nonce below the stored nonce of its debt position, createOrder requests
\* interleaving with the pass included.
C37_NoStaleActiveOrderAfterPass ==
    [][ \A caller \in Callers :
          PassCompleted(caller) =>
              \A o \in orders' :
                  o.status = "ACTIVE" => o.debtNonce >= positions'[o.debtAddress] ]_vars

\* The indexer exposes the execution event of a stored ACTIVE order.
EventAwaitsApplication ==
    \E o \in orders : o.status = "ACTIVE" /\ Exposed(o.id)

\* C38: an execution event the indexer exposes for a stored ACTIVE order is
\* eventually applied, the order becoming EXECUTED, when passes keep being
\* scheduled and answered, however many newer events the indexer publishes
\* between two passes.
C38_ExposedEventIsEventuallyApplied ==
    EventAwaitsApplication ~> (\A o \in orders : Exposed(o.id) => o.status = "EXECUTED")

\* C39: once stopCaching has returned, the cron job starts no pass, also
\* when stopCaching was called while startCaching awaited its first pass.
C39_NoScheduledPassAfterStop ==
    [][ stopReturned =>
            ~(passes["cron"].pc = "idle" /\ passes'["cron"].pc = "fetching") ]_vars

====
